---- MODULE Spec2Model ----
(***************************************************************************)
(* Retrieval ranker of the PartSelect support agent                        *)
(* (backend/app/rag/retrieval.py): candidate gathering over the search     *)
(* collections, keyword bonus, text similarity and the greedy MMR          *)
(* selection loop of retrieve_documents.                                   *)
(*                                                                         *)
(* Strings are sequences of one-character strings.  Real-valued scores are *)
(* exact rationals <<numerator, denominator>> with a positive denominator; *)
(* distances are integers counted in hundredths.  The code computes the    *)
(* scores in IEEE doubles, whose rounding can order two scores that are    *)
(* equal as rationals: the distances of the initial states (0.1 and 0.25)  *)
(* are such that both arithmetics order every pair of scores alike.        *)
(***************************************************************************)
EXTENDS Integers, Sequences, FiniteSets, TLC

None == "None"

Min(a, b) == IF a <= b THEN a ELSE b

\* ------------------------------------------------------------------------
\* Strings
\* ------------------------------------------------------------------------

\* str.lower() on the ASCII capitals
LowerMap ==
    "A" :> "a" @@ "B" :> "b" @@ "C" :> "c" @@ "D" :> "d" @@ "E" :> "e" @@ "F" :> "f"
    @@ "G" :> "g" @@ "H" :> "h" @@ "I" :> "i" @@ "J" :> "j" @@ "K" :> "k" @@ "L" :> "l"
    @@ "M" :> "m" @@ "N" :> "n" @@ "O" :> "o" @@ "P" :> "p" @@ "Q" :> "q" @@ "R" :> "r"
    @@ "S" :> "s" @@ "T" :> "t" @@ "U" :> "u" @@ "V" :> "v" @@ "W" :> "w" @@ "X" :> "x"
    @@ "Y" :> "y" @@ "Z" :> "z"

\* str.lower() on one ASCII character
LowerChar(c) == IF c \in DOMAIN LowerMap THEN LowerMap[c] ELSE c

\* str.lower()
Lower(s) == [i \in 1..Len(s) |-> LowerChar(s[i])]

\* a-z and 0-9, the characters the pattern [^a-z0-9]+ does not split on
TokenChars ==
    {"a","b","c","d","e","f","g","h","i","j","k","l","m",
     "n","o","p","q","r","s","t","u","v","w","x","y","z",
     "0","1","2","3","4","5","6","7","8","9"}

IsTokenChar(c) == c \in TokenChars

\* re.split(r"[^a-z0-9]+", s) restricted to its non-empty pieces: the maximal
\* runs of token characters of s, left to right (i scans s, cur is the run so far)
RECURSIVE SplitFrom(_, _, _)
SplitFrom(s, i, cur) ==
    IF i > Len(s)
    THEN (IF cur = <<>> THEN <<>> ELSE <<cur>>)
    ELSE IF IsTokenChar(s[i])
         THEN SplitFrom(s, i + 1, Append(cur, s[i]))
         ELSE (IF cur = <<>> THEN <<>> ELSE <<cur>>) \o SplitFrom(s, i + 1, <<>>)

\* `token in text`: token occurs as a contiguous substring of text
Contains(text, token) ==
    \E i \in 0..(Len(text) - Len(token)) :
        \A d \in 1..Len(token) : text[i + d] = token[d]

LongToken_three(t) == Len(t) >= 3

\* the len(t) > 3 filter of _keyword_bonus
LongToken(t) == Len(t) > 3

\* tokens = [t for t in re.split(r"[^a-z0-9]+", query.lower()) if len(t) > 3]
QueryTokens(query) == SelectSeq(SplitFrom(Lower(query), 1, <<>>), LongToken)

MatchCount_distinct(tokens, text_lower) ==
    Cardinality({tokens[i] : i \in {k \in 1..Len(tokens) : Contains(text_lower, tokens[k])}})

\* matches = sum(1 for token in tokens if token in text_lower)
MatchCount(tokens, text_lower) ==
    Cardinality({i \in 1..Len(tokens) : Contains(text_lower, tokens[i])})

\* _keyword_bonus(query, text): the rational matches / len(tokens), 0.0 as <<0, 1>>
keyword_bonus(query, text) ==
    LET tokens == QueryTokens(query)
    IN  IF tokens = <<>>
        THEN <<0, 1>>
        ELSE <<MatchCount(tokens, Lower(text)), Len(tokens)>>

\* ------------------------------------------------------------------------
\* difflib.SequenceMatcher(None, a, b).ratio() for strings shorter than the
\* 200 characters at which the autojunk heuristic starts
\* ------------------------------------------------------------------------

\* length of the common run of a[i..ahi-1] and b[j..bhi-1] starting at i and j
RECURSIVE RunLen(_, _, _, _, _, _)
RunLen(a, b, i, j, ahi, bhi) ==
    IF i < ahi /\ j < bhi /\ a[i] = b[j]
    THEN 1 + RunLen(a, b, i + 1, j + 1, ahi, bhi)
    ELSE 0

\* find_longest_match(alo, ahi, blo, bhi): <<i, j, k>>, the longest matching
\* block, the one starting earliest in a and then earliest in b; k = 0 if none
FindLongestMatch(a, b, alo, ahi, blo, bhi) ==
    LET Starts == (alo..(ahi - 1)) \X (blo..(bhi - 1))
        K(p) == RunLen(a, b, p[1], p[2], ahi, bhi)
        Sizes == {K(p) : p \in Starts}
        bestsize == CHOOSE k \in Sizes : \A k2 \in Sizes : k2 <= k
        Before(p, q) == p[1] < q[1] \/ (p[1] = q[1] /\ p[2] <= q[2])
    IN  IF bestsize = 0
        THEN <<alo, blo, 0>>
        ELSE LET best == CHOOSE p \in Starts :
                             /\ K(p) = bestsize
                             /\ \A q \in Starts : K(q) = bestsize => Before(p, q)
             IN  <<best[1], best[2], bestsize>>

\* sum of the sizes of get_matching_blocks(): the longest block, then the
\* same to the left and to the right of it
RECURSIVE MatchingSize(_, _, _, _, _, _)
MatchingSize(a, b, alo, ahi, blo, bhi) ==
    IF alo >= ahi \/ blo >= bhi
    THEN 0
    ELSE LET m == FindLongestMatch(a, b, alo, ahi, blo, bhi)
         IN  IF m[3] = 0
             THEN 0
             ELSE m[3]
                  + MatchingSize(a, b, alo, m[1], blo, m[2])
                  + MatchingSize(a, b, m[1] + m[3], ahi, m[2] + m[3], bhi)

\* ratio(): 2.0 * matches / length, and 1.0 when both strings are empty
Ratio(a, b) ==
    IF Len(a) + Len(b) = 0
    THEN <<1, 1>>
    ELSE <<2 * MatchingSize(a, b, 1, Len(a) + 1, 1, Len(b) + 1), Len(a) + Len(b)>>


\* ------------------------------------------------------------------------
\* Passage texts: the state holds a text under its name, Chars spells it out
\* ------------------------------------------------------------------------

KnownTexts ==
    {"", "Leak pump",
     "leak pumps",
     "eco mode",
     "A1A1 aaaa",
     "dishwasher leaking water inlet valve",
     "eco mode cycle explanation"}

Chars(text) ==
    CASE text = "" -> <<>>
      [] text = "Leak pump" -> <<"L","e","a","k"," ","p","u","m","p">>
      [] text = "leak pumps" -> <<"l","e","a","k"," ","p","u","m","p","s">>
      [] text = "eco mode" -> <<"e","c","o"," ","m","o","d","e">>
      [] text = "A1A1 aaaa" -> <<"A","1","A","1"," ","a","a","a","a">>
      [] text = "dishwasher leaking water inlet valve" ->
           <<"d","i","s","h","w","a","s","h","e","r"," ","l","e","a","k","i",
             "n","g"," ","w","a","t","e","r"," ","i","n","l","e","t"," ","v",
             "a","l","v","e">>
      [] text = "eco mode cycle explanation" ->
           <<"e","c","o"," ","m","o","d","e"," ","c","y","c","l","e"," ","e",
             "x","p","l","a","n","a","t","i","o","n">>

\* SequenceMatcher(None, a, b).ratio() of every two texts, worked out once
RatioTable ==
    [pr \in KnownTexts \X KnownTexts |-> Ratio(Chars(pr[1]), Chars(pr[2]))] @@ <<>>

\* ------------------------------------------------------------------------
\* State
\* ------------------------------------------------------------------------

\* the callers of retrieve_documents whose calls may interleave
Procs == {1, 2}

VARIABLES
    index,              \* search collaborator: collection name -> stored documents, nearest first
    simfn,              \* _similarity as a table over the texts of the index
    failing,            \* search collaborator: the collections whose query raises
    pc,                 \* per call: "off", "idle", "gather", "select", "break", "done",
                        \* "raised" (the call ended with an exception, nothing returned)
    query,              \* argument query
    top_k,              \* argument top_k
    preferred_source,   \* argument preferred_source (None when not given)
    collections,        \* argument collections
    ci,                 \* position of `for collection in collections` (1-based)
    candidates,         \* local candidates: the pool
    selected,           \* local selected
    remaining,          \* local remaining
    result,             \* returned list (empty until the call is "done")
    message,            \* handle_message: argument user_message
    decision,           \* handle_message: the RouteDecision of route_intent
    hpc,                \* handle_message: "off", "idle", "dispatch", "retrieve", "done",
                        \* "raised" (it ended with an exception, nothing returned)
    response,           \* handle_message: the mapping returned
    llm_calls,          \* calls of llm_answer made for the message
    db,                 \* database collaborator: the rows of its tables
    lpc,                \* llm_answer: "off", "idle", "loop", "done"
    max_retries,        \* llm_answer: argument max_retries
    attempt,            \* llm_answer: the attempt the for loop is about to make
    outcomes,           \* chat-completion collaborator: what its calls gave, in order
    slept,              \* the arguments of the calls of time.sleep, in order
    answer              \* llm_answer: the string returned

\* the state of the calls of retrieve_documents and of the search collaborator
retrieval == <<index, simfn, failing, pc, query, top_k, preferred_source, collections,
               ci, candidates, selected, remaining, result>>

\* the state of handle_message and of the database collaborator
\* the state of llm_answer, of the chat-completion collaborator and of the clock
llm == <<lpc, max_retries, attempt, outcomes, slept, answer>>

chat == <<message, decision, hpc, response, llm_calls, db, llm>>

vars == <<retrieval, chat>>

args == <<query, top_k, preferred_source, collections>>

\* ------------------------------------------------------------------------
\* Rationals and the fixed-point unit of the scores
\* ------------------------------------------------------------------------

RatGreater(x, y) == x[1] * y[2] > y[1] * x[2]

RatGeq(x, y) == x[1] * y[2] >= y[1] * x[2]

\* max(...) over a non-empty sequence of rationals
RatMax(rs) ==
    rs[CHOOSE i \in 1..Len(rs) : \A j \in 1..Len(rs) : RatGeq(rs[i], rs[j])]

\* base scores are integers counted in 1/Unit; Unit is a multiple of 100
\* (distances), of 10 (the weights) and of 5 times every token count in use
Unit == 60 * 100

\* ------------------------------------------------------------------------
\* query_collection (the search collaborator behind it is index)
\* ------------------------------------------------------------------------

\* col.query(query_texts=[query], n_results=n_results) normalised to a list
\* of {id, text, metadata, distance}: the n_results nearest stored documents
query_collection(q, collection_name, n_results) ==
    SubSeq(index[collection_name], 1, Min(n_results, Len(index[collection_name])))

\* ------------------------------------------------------------------------
\* retrieve_documents: scoring
\* ------------------------------------------------------------------------

\* item.get("distance") is None: no distance is negative
NoDistance == -1

\* best_score = None
NoScore == <<>>

\* truthiness of an Optional[str]
Truthy(s) == s # None /\ s # ""

\* lambda_mult = 0.7, in tenths
lambda_mult == 7

source_bias_forcing(p) == IF Truthy(preferred_source[p]) THEN 100 ELSE 0

\* source_bias = 0.1 if preferred_source else 0.0, in tenths
source_bias(p) == IF Truthy(preferred_source[p]) THEN 1 ELSE 0

\* dict.get(key, default): a dict is a record, a key it lacks is a field it lacks
Get(item, key, default) == IF key \in DOMAIN item THEN item[key] ELSE default

DistanceOr1_zero(item) ==
    LET distance == Get(item, "distance", NoDistance)
    IN  IF distance = NoDistance THEN 0 ELSE distance

\* distance if distance is not None else 1.0, in hundredths
DistanceOr1(item) ==
    LET distance == Get(item, "distance", NoDistance)
    IN  IF distance = NoDistance THEN 100 ELSE distance

GetRaises_subscript(item, key) == key \notin DOMAIN item

\* whether dict.get(key, ...) raises KeyError on item: never, unlike item[key]
GetRaises(item, key) == FALSE

\* item.get("text", "")
TextOf(item) == Get(item, "text", "")

\* 0.2 * item.get("keyword_bonus", 0.0), in 1/Unit
KeywordTerm(item) == (2 * (Unit \div 10) * item.keyword_bonus[1]) \div item.keyword_bonus[2]

IsPreferred_far(p, item) ==
    /\ Truthy(preferred_source[p])
    /\ item.source_collection = preferred_source[p]
    /\ DistanceOr1(item) > 10

IsPreferred_negated(p, item) ==
    Truthy(preferred_source[p]) /\ item.source_collection # preferred_source[p]

\* the source test of line 56
IsPreferred(p, item) ==
    Truthy(preferred_source[p]) /\ item.source_collection = preferred_source[p]

\* base_score of lines 53-57, in 1/Unit
base_score(p, item) ==
    (0 - DistanceOr1(item) * (Unit \div 100))
    + KeywordTerm(item)
    + (IF IsPreferred(p, item) THEN source_bias(p) * (Unit \div 10) ELSE 0)

\* _similarity(a, b)
similarity(a, b) == simfn[<<a, b>>]

redundancy_none(item, sel) == <<0, 1>>

\* redundancy of lines 59-61 against the list sel
redundancy(item, sel) ==
    IF sel = <<>>
    THEN <<0, 1>>
    ELSE RatMax([k \in 1..Len(sel) |-> similarity(TextOf(item), TextOf(sel[k]))])

MmrOf_swapped(base, red) ==
    <<(10 - lambda_mult) * base * red[2] - lambda_mult * Unit * red[1], red[2]>>

\* lambda_mult * base - (1 - lambda_mult) * redundancy for base in 1/Unit and
\* redundancy red: a rational counted in 1/(10 * Unit)
MmrOf(base, red) ==
    <<lambda_mult * base * red[2] - (10 - lambda_mult) * Unit * red[1], red[2]>>

\* mmr_score of line 63 for item, given the selected list of call p
mmr_score(p, item) == MmrOf(base_score(p, item), redundancy(item, selected[p]))

ScanBest_none(p, rem, i, best, best_score) == 0

ScanBest_lowest(p, rem, i, best, best_score) ==
    IF rem = <<>>
    THEN 0
    ELSE CHOOSE k \in 1..Len(rem) :
             /\ \A j \in 1..Len(rem) : RatGeq(mmr_score(p, rem[j]), mmr_score(p, rem[k]))
             /\ \A j \in 1..(k - 1) :
                    RatGreater(mmr_score(p, rem[j]), mmr_score(p, rem[k]))

ScanBest_last(p, rem, i, best, best_score) ==
    IF rem = <<>>
    THEN 0
    ELSE CHOOSE k \in 1..Len(rem) :
             /\ \A j \in 1..Len(rem) : RatGeq(mmr_score(p, rem[k]), mmr_score(p, rem[j]))
             /\ \A j \in (k + 1)..Len(rem) :
                    RatGreater(mmr_score(p, rem[k]), mmr_score(p, rem[j]))

\* the for loop of lines 50-66 over rem from position i on: the position in
\* rem of best (0 for best = None)
RECURSIVE ScanBest(_, _, _, _, _)
ScanBest(p, rem, i, best, best_score) ==
    IF i > Len(rem)
    THEN best
    ELSE LET s == mmr_score(p, rem[i])
         IN  IF best_score = NoScore \/ RatGreater(s, best_score)
             THEN ScanBest(p, rem, i + 1, i, s)
             ELSE ScanBest(p, rem, i + 1, best, best_score)

\* dict equality, which does not see the identity of the object
SameDict(c, d) == [c EXCEPT !.ref = 0] = [d EXCEPT !.ref = 0]

Remove_all(list, x) == SelectSeq(list, LAMBDA y : ~SameDict(y, x))

\* list.remove(x): the list without its first element equal to x
Remove(list, x) ==
    LET k == CHOOSE i \in 1..Len(list) :
                 SameDict(list[i], x) /\ \A j \in 1..(i - 1) : ~SameDict(list[j], x)
    IN  SubSeq(list, 1, k - 1) \o SubSeq(list, k + 1, Len(list))

\* ------------------------------------------------------------------------
\* retrieve_documents: the steps of one call p
\* ------------------------------------------------------------------------

FreshPool_stale(prev) == prev

\* candidates = [] of line 32; prev is what the name held before the call
FreshPool(prev) == <<>>

Annotate_untagged(docs, collection, q, made) ==
    [i \in 1..Len(docs) |->
        [ref |-> made + i,
         source_collection |-> "repairs",
         keyword_bonus |-> keyword_bonus(q, Chars(TextOf(docs[i])))] @@ docs[i]]

\* lines 36-39 for the documents docs of one collection: dict(doc) with the
\* two keys set; ref is the identity of the dict made at line 36 (its rank of
\* creation within the call)
Annotate(docs, collection, q, made) ==
    [i \in 1..Len(docs) |->
        [ref |-> made + i,
         source_collection |-> collection,
         keyword_bonus |-> keyword_bonus(q, Chars(TextOf(docs[i])))] @@ docs[i]]

EmptyResult_none == <<None>>

\* return [] of line 42
EmptyResult == <<>>

PoolAfterRemove_aliased(pool, rest) == rest

\* remaining = candidates[:] of line 48 is a copy: removing from remaining
\* leaves candidates alone (pool is candidates, rest is remaining afterwards)
PoolAfterRemove(pool, rest) == pool

LoopCond_inclusive(p) == remaining[p] # <<>> /\ Len(selected[p]) <= top_k[p]

\* the while condition of line 49
LoopCond(p) == remaining[p] # <<>> /\ Len(selected[p]) < top_k[p]

\* whether building the candidates of docs raises, lines 35-39
GatherRaises(docs) == \E i \in 1..Len(docs) : GetRaises(docs[i], "text")

\* whether scoring item raises, lines 53-61: source_collection is read only
\* under a preferred_source, the texts only once something is selected
ScoreRaises(p, item) ==
    \/ GetRaises(item, "distance")
    \/ GetRaises(item, "keyword_bonus")
    \/ Truthy(preferred_source[p]) /\ GetRaises(item, "source_collection")
    \/ /\ selected[p] # <<>>
       /\ \/ GetRaises(item, "text")
          \/ \E k \in 1..Len(selected[p]) : GetRaises(selected[p][k], "text")

QueryRaises_caught(collection) == FALSE

\* whether query_collection raises for collection: the collaborator's error
\* passes through it
QueryRaises(collection) == collection \in failing

\* entry of retrieve_documents, lines 25-32, by caller p with the arguments
\* q, k, s and c
Invoke(p, q, k, s, c) ==
    /\ pc[p] \in {"idle", "done", "raised"}
    /\ query' = [query EXCEPT ![p] = q]
    /\ top_k' = [top_k EXCEPT ![p] = k]
    /\ preferred_source' = [preferred_source EXCEPT ![p] = s]
    /\ collections' = [collections EXCEPT ![p] = c]
    /\ pc' = [pc EXCEPT ![p] = "gather"]
    /\ ci' = [ci EXCEPT ![p] = 1]
    /\ candidates' = [candidates EXCEPT ![p] = FreshPool(candidates[p])]
    /\ selected' = [selected EXCEPT ![p] = <<>>]
    /\ remaining' = [remaining EXCEPT ![p] = <<>>]
    /\ result' = [result EXCEPT ![p] = <<>>]

\* a call of retrieve_documents by caller p with a query from Qs, a top_k from
\* Ks, a preferred_source from Prefs and collections from Colls
Call(p, Qs, Ks, Prefs, Colls) ==
    /\ \E q \in Qs, k \in Ks, s \in Prefs, c \in Colls : Invoke(p, q, k, s, c)
    /\ UNCHANGED <<chat, index, simfn, failing>>

\* one iteration of `for collection in collections`, lines 33-39; nothing
\* catches what query_collection or the loop body raises
Gather(p) ==
    /\ pc[p] = "gather"
    /\ ci[p] <= Len(collections[p])
    /\ LET collection == collections[p][ci[p]]
           docs == query_collection(query[p], collection, top_k[p])
       IN  IF QueryRaises(collection) \/ GatherRaises(docs)
           THEN /\ pc' = [pc EXCEPT ![p] = "raised"]
                /\ UNCHANGED <<candidates, ci>>
           ELSE /\ candidates' = [candidates EXCEPT ![p] =
                       @ \o Annotate(docs, collection, query[p], Len(@))]
                /\ ci' = [ci EXCEPT ![p] = @ + 1]
                /\ UNCHANGED pc
    /\ UNCHANGED <<chat, index, simfn, failing, args, selected, remaining, result>>

\* after the for loop: lines 41-48
Check(p) ==
    /\ pc[p] = "gather"
    /\ ci[p] > Len(collections[p])
    /\ IF candidates[p] = <<>>
       THEN /\ result' = [result EXCEPT ![p] = EmptyResult]
            /\ pc' = [pc EXCEPT ![p] = "done"]
            /\ UNCHANGED <<selected, remaining>>
       ELSE /\ selected' = [selected EXCEPT ![p] = <<>>]
            /\ remaining' = [remaining EXCEPT ![p] = candidates[p]]
            /\ pc' = [pc EXCEPT ![p] = "select"]
            /\ UNCHANGED result
    /\ UNCHANGED <<chat, index, simfn, failing, args, ci, candidates>>

\* one iteration of the while loop, lines 49-71
Select(p) ==
    /\ pc[p] = "select"
    /\ LoopCond(p)
    /\ IF \E i \in 1..Len(remaining[p]) : ScoreRaises(p, remaining[p][i])
       THEN /\ pc' = [pc EXCEPT ![p] = "raised"]
            /\ UNCHANGED <<selected, remaining, candidates>>
       ELSE LET best == ScanBest(p, remaining[p], 1, 0, NoScore)
            IN  IF best = 0
                THEN /\ pc' = [pc EXCEPT ![p] = "break"]
                     /\ UNCHANGED <<selected, remaining, candidates>>
                ELSE /\ selected' = [selected EXCEPT ![p] = Append(@, remaining[p][best])]
                     /\ remaining' = [remaining EXCEPT ![p] = Remove(@, remaining[p][best])]
                     /\ candidates' = [candidates EXCEPT ![p] =
                             PoolAfterRemove(@, Remove(remaining[p], remaining[p][best]))]
                     /\ UNCHANGED pc
    /\ UNCHANGED <<chat, index, simfn, failing, args, ci, result>>

\* return selected, line 73
Return(p) ==
    /\ \/ pc[p] = "break"
       \/ pc[p] = "select" /\ ~LoopCond(p)
    /\ result' = [result EXCEPT ![p] = selected[p]]
    /\ pc' = [pc EXCEPT ![p] = "done"]
    /\ UNCHANGED <<chat, index, simfn, failing, args, ci, candidates, selected, remaining>>


\* ------------------------------------------------------------------------
\* Initial states
\* ------------------------------------------------------------------------

Collections == {"repairs", "blogs"}

\* DEFAULT_COLLECTIONS
DEFAULT_COLLECTIONS == <<"repairs", "blogs">>

\* "Pumps leak"
QueryPumpsLeak == <<"P","u","m","p","s"," ","l","e","a","k">>

\* largest number of documents stored in the collections together
MaxDocs == 3

\* largest top_k
MaxK == 2

SeqsUpTo(S, n) == UNION {[1..k -> S] : k \in 0..n}

\* the stored documents with the given contents; ids are <<kind, rank>>
WithIds(contents, kind) ==
    [i \in 1..Len(contents) |->
        [id |-> <<kind, i>>, text |-> contents[i].text, distance |-> contents[i].distance]]

\* a collection answers nearest first: distances never decrease along it
NearestFirst(docs) ==
    \A i \in 1..Len(docs), j \in 1..Len(docs) :
        i < j => docs[i].distance <= docs[j].distance

Stored(Contents, n) == {docs \in SeqsUpTo(Contents, n) : NearestFirst(docs)}

\* the indexes holding at most n documents with contents in Contents; the
\* documents of blogs have ids of their own or, the same passages having
\* been ingested into both collections, the ids of repairs
Indexes(Contents, n) ==
    UNION {{[c \in Collections |-> IF c = "repairs" THEN WithIds(r, "repair")
                                                     ELSE WithIds(bk[1], bk[2])] :
               bk \in {t \in Stored(Contents, n - Len(r)) \X {"repair", "blog"} :
                          t[1] = <<>> => t[2] = "blog"}} :
           r \in Stored(Contents, n)}

TextsOf(idx) == UNION {{TextOf(idx[c][i]) : i \in 1..Len(idx[c])} : c \in Collections}

\* _similarity over the texts of idx
SimilarityOn(idx) == [pr \in TextsOf(idx) \X TextsOf(idx) |-> RatioTable[pr]]

\* no call has started
InitLocals ==
    /\ query = [p \in Procs |-> <<>>]
    /\ top_k = [p \in Procs |-> 1]
    /\ preferred_source = [p \in Procs |-> None]
    /\ collections = [p \in Procs |-> <<>>]
    /\ ci = [p \in Procs |-> 1]
    /\ candidates = [p \in Procs |-> <<>>]
    /\ selected = [p \in Procs |-> <<>>]
    /\ remaining = [p \in Procs |-> <<>>]
    /\ result = [p \in Procs |-> <<>>]

\* the tables without rows
EmptyDb == [parts |-> {}, models |-> {}, mappings |-> {}, orders |-> {}, transactions |-> {}]

\* llm_answer with the given position, before a call
LlmAt(at) ==
    /\ lpc = at
    /\ max_retries = 0
    /\ attempt = 0
    /\ outcomes = <<>>
    /\ slept = <<>>
    /\ answer = <<>>

\* handle_message is not in use
NoChat ==
    /\ LlmAt("off")
    /\ message = <<>>
    /\ decision = <<>>
    /\ hpc = "off"
    /\ response = <<>>
    /\ llm_calls = 0
    /\ db = EmptyDb

\* caller 1 alone
OneCaller ==
    /\ pc = [p \in Procs |-> IF p = 1 THEN "idle" ELSE "off"]
    /\ InitLocals
    /\ NoChat

Texts == {"Leak pump", "leak pumps", "eco mode"}

\* 0.1 and 0.25
Distances == {10, 25}

Contents == [text : Texts, distance : Distances]

PreferredSources == {None, "repairs"}

CollectionTuples ==
    {DEFAULT_COLLECTIONS, <<"blogs", "repairs">>, <<"repairs", "repairs">>}

Init ==
    /\ index \in Indexes(Contents, MaxDocs)
    /\ simfn = SimilarityOn(index)
    /\ failing = {}
    /\ OneCaller

Next ==
    \E p \in Procs :
        \/ Call(p, {QueryPumpsLeak}, 1..MaxK, PreferredSources, CollectionTuples)
        \/ Gather(p)
        \/ Check(p)
        \/ Select(p)
        \/ Return(p)

Spec == Init /\ [][Next]_vars

\* ------------------------------------------------------------------------
\* Two callers whose calls interleave and repeat, over one index
\* ------------------------------------------------------------------------

TwoCallerIndex ==
    [c \in Collections |->
        IF c = "repairs"
        THEN WithIds(<<[text |-> "Leak pump", distance |-> 10],
                       [text |-> "leak pumps", distance |-> 25]>>, "repair")
        ELSE WithIds(<<[text |-> "eco mode", distance |-> 10]>>, "blog")]

InitTwo ==
    /\ index = TwoCallerIndex
    /\ simfn = SimilarityOn(index)
    /\ failing = {}
    /\ pc = [p \in Procs |-> "idle"]
    /\ InitLocals
    /\ NoChat

NextTwo ==
    \E p \in Procs :
        \/ Call(p, {QueryPumpsLeak}, 1..MaxK, PreferredSources, CollectionTuples)
        \/ Gather(p)
        \/ Check(p)
        \/ Select(p)
        \/ Return(p)

SpecTwo == InitTwo /\ [][NextTwo]_vars

\* ------------------------------------------------------------------------
\* The scenario of three passages a, b, c, for every similarity of c to a
\* ------------------------------------------------------------------------

\* "dishwasher leaking"
QueryDishwasherLeaking ==
    <<"d","i","s","h","w","a","s","h","e","r"," ","l","e","a","k","i","n","g">>

\* repairs holds a (0.1) and b (0.12), blogs holds c (0.3)
ScenarioIndex ==
    [c \in Collections |->
        IF c = "repairs"
        THEN <<[id |-> "a", text |-> "dishwasher leaking water inlet valve", distance |-> 10],
               [id |-> "b", text |-> "dishwasher leaking water inlet valve", distance |-> 12]>>
        ELSE <<[id |-> "c", text |-> "eco mode cycle explanation", distance |-> 30]>>]

\* the similarities between 0 and 1 are counted in 1/SimScale
SimScale == 100

\* the values of _similarity between 0 and 1
SimilarityValues ==
    {<<n, SimScale>> : n \in 0..SimScale}
    \cup {RatioTable[<<"eco mode cycle explanation", "dishwasher leaking water inlet valve">>]}

\* _similarity over the texts of the scenario when that of c to a is v
ScenarioSimilarity(v) ==
    [pr \in TextsOf(ScenarioIndex) \X TextsOf(ScenarioIndex) |->
        IF pr = <<"eco mode cycle explanation", "dishwasher leaking water inlet valve">>
        THEN v
        ELSE RatioTable[pr]]

InitScenario ==
    /\ index = ScenarioIndex
    /\ \E v \in SimilarityValues : simfn = ScenarioSimilarity(v)
    /\ failing = {}
    /\ OneCaller

NextScenario ==
    \E p \in Procs :
        \/ Call(p, {QueryDishwasherLeaking}, {2}, {"repairs"}, {DEFAULT_COLLECTIONS})
        \/ Gather(p)
        \/ Check(p)
        \/ Select(p)
        \/ Return(p)

SpecScenario == InitScenario /\ [][NextScenario]_vars

\* ------------------------------------------------------------------------
\* Every query up to a length over a small alphabet
\* ------------------------------------------------------------------------

\* a capital letter, a digit and a separator
QueryAlphabet == {"A", "1", "-"}

\* longest query
MaxQLen == 9

Queries == SeqsUpTo(QueryAlphabet, MaxQLen)

KeywordIndex ==
    [c \in Collections |->
        IF c = "repairs"
        THEN WithIds(<<[text |-> "A1A1 aaaa", distance |-> 10]>>, "repair")
        ELSE WithIds(<<[text |-> "eco mode", distance |-> 25]>>, "blog")]

InitKeyword ==
    /\ index = KeywordIndex
    /\ simfn = SimilarityOn(index)
    /\ failing = {}
    /\ OneCaller

\* the first call of caller p
FirstCall(p, Qs, Ks, Prefs, Colls) == pc[p] = "idle" /\ Call(p, Qs, Ks, Prefs, Colls)

NextKeyword ==
    \E p \in Procs :
        \/ FirstCall(p, Queries, {1}, {None}, {DEFAULT_COLLECTIONS})
        \/ Gather(p)
        \/ Check(p)
        \/ Select(p)
        \/ Return(p)

SpecKeyword == InitKeyword /\ [][NextKeyword]_vars

\* ------------------------------------------------------------------------
\* Documents that lack keys, or whose distance is None or above 1.0
\* ------------------------------------------------------------------------

\* the metadata of a stored passage
Metadata == [source |-> "repair"]

\* 0.5, 1.0 and 1.5: the collections are created with the default space of
\* the store, whose distances are not bounded by 1.0
WideDistances == {50, 100, 150}

\* what a collaborator may hand over for one document, the id aside: every
\* key, a distance of None, or one or all of the keys lacking
MalformedContents ==
    {[text |-> "Leak pump", metadata |-> Metadata, distance |-> d] :
        d \in WideDistances \cup {NoDistance}}
    \cup {[text |-> "Leak pump", metadata |-> Metadata],
          [metadata |-> Metadata, distance |-> 50],
          [text |-> "Leak pump", distance |-> 50],
          <<>>}

\* largest number of documents of repairs
MaxRaw == 2

\* the documents with the given contents under the ids <<kind, rank>>
AddIds(contents, kind) ==
    [i \in 1..Len(contents) |-> [id |-> <<kind, i>>] @@ contents[i]]

MalformedIndexes ==
    {[c \in Collections |->
        IF c = "repairs"
        THEN AddIds(r, "repair")
        ELSE AddIds(<<[text |-> "eco mode", metadata |-> Metadata, distance |-> 25]>>, "blog")] :
     r \in SeqsUpTo(MalformedContents, MaxRaw)}

InitMalformed ==
    /\ index \in MalformedIndexes
    /\ simfn = SimilarityOn(index)
    /\ failing = {}
    /\ OneCaller

NextMalformed ==
    \E p \in Procs :
        \/ Call(p, {QueryPumpsLeak}, 1..(MaxRaw + 1), PreferredSources, {DEFAULT_COLLECTIONS})
        \/ Gather(p)
        \/ Check(p)
        \/ Select(p)
        \/ Return(p)

SpecMalformed == InitMalformed /\ [][NextMalformed]_vars

\* ------------------------------------------------------------------------
\* Documents that all come without a distance
\* ------------------------------------------------------------------------

\* a passage whose distance is None, or whose distance key is lacking
NoDistanceContents ==
    {[text |-> t, distance |-> NoDistance] : t \in Texts} \cup {[text |-> "Leak pump"]}

\* up to MaxRaw such documents in repairs and up to one in blogs
NoDistanceIndexes ==
    {[c \in Collections |-> IF c = "repairs" THEN AddIds(r, "repair") ELSE AddIds(b, "blog")] :
     r \in SeqsUpTo(NoDistanceContents, MaxRaw), b \in SeqsUpTo(NoDistanceContents, 1)}

InitNoDistance ==
    /\ index \in NoDistanceIndexes
    /\ simfn = SimilarityOn(index)
    /\ failing = {}
    /\ OneCaller

NextNoDistance ==
    \E p \in Procs :
        \/ Call(p, {QueryPumpsLeak}, 1..(MaxRaw + 1), PreferredSources, {DEFAULT_COLLECTIONS})
        \/ Gather(p)
        \/ Check(p)
        \/ Select(p)
        \/ Return(p)

SpecNoDistance == InitNoDistance /\ [][NextNoDistance]_vars

\* ------------------------------------------------------------------------
\* route_intent: the extractors
\* ------------------------------------------------------------------------

\* str.upper() of one character
UpperChar(c) ==
    IF \E u \in DOMAIN LowerMap : LowerMap[u] = c
    THEN CHOOSE u \in DOMAIN LowerMap : LowerMap[u] = c
    ELSE c

\* str.upper()
Upper(s) == [i \in 1..Len(s) |-> UpperChar(s[i])]

\* \d
Digits == {"0","1","2","3","4","5","6","7","8","9"}

\* \s
Whitespace == {" ", "\t", "\n", "\r"}

\* [A-Za-z0-9]
Alnum == TokenChars \cup {UpperChar(c) : c \in TokenChars}

\* m.group(1) of a pattern that did not match, and the None of an Optional[str]
\* field: no group of the patterns is empty
NoMatch == <<>>

\* the position after the longest run of characters of S in t from i on
RunEnd(t, i, S) ==
    CHOOSE j \in i..(Len(t) + 1) :
        /\ \A k \in i..(j - 1) : t[k] \in S
        /\ j = Len(t) + 1 \/ t[j] \notin S

\* t[i:].startswith(w)
StartsAt(t, i, w) == i + Len(w) - 1 <= Len(t) /\ SubSeq(t, i, i + Len(w) - 1) = w

\* str.strip()
Strip(s) ==
    LET a == RunEnd(s, 1, Whitespace)
        b == IF a > Len(s)
             THEN a - 1
             ELSE CHOOSE j \in a..Len(s) :
                      s[j] \notin Whitespace /\ \A k \in (j + 1)..Len(s) : s[k] \in Whitespace
    IN  SubSeq(s, a, b)

\* re.search(pattern, t).group(1) where MatchAt(t, i) is the group of the match
\* of the pattern that starts at i: that of the leftmost match
Search(t, MatchAt(_, _)) ==
    IF \E i \in 1..Len(t) : MatchAt(t, i) # NoMatch
    THEN MatchAt(t, CHOOSE i \in 1..Len(t) :
                        /\ MatchAt(t, i) # NoMatch
                        /\ \A j \in 1..(i - 1) : MatchAt(t, j) = NoMatch)
    ELSE NoMatch

\* PART_ID_REGEX = (PS\d{5,}) at i
PartIdAt(t, i) ==
    IF StartsAt(t, i, <<"P","S">>) /\ RunEnd(t, i + 2, Digits) >= i + 7
    THEN SubSeq(t, i, RunEnd(t, i + 2, Digits) - 1)
    ELSE NoMatch

extract_part_id(text) == Search(Upper(text), PartIdAt)

\* ORDER_ID_REGEX = order\s*#?\s*(\d+) at i
OrderIdAt(t, i) ==
    IF ~StartsAt(t, i, <<"o","r","d","e","r">>)
    THEN NoMatch
    ELSE LET a == RunEnd(t, i + 5, Whitespace)
             b == IF a <= Len(t) /\ t[a] = "#" THEN a + 1 ELSE a
             c == RunEnd(t, b, Whitespace)
         IN  SubSeq(t, c, RunEnd(t, c, Digits) - 1)

\* order\s+(?:number\s+)?(\d{1,6}) at i
OrderNumberAt(t, i) ==
    IF ~StartsAt(t, i, <<"o","r","d","e","r">>) \/ RunEnd(t, i + 5, Whitespace) = i + 5
    THEN NoMatch
    ELSE LET a == RunEnd(t, i + 5, Whitespace)
             n == IF StartsAt(t, a, <<"n","u","m","b","e","r">>) /\ RunEnd(t, a + 6, Whitespace) > a + 6
                  THEN RunEnd(t, a + 6, Whitespace)
                  ELSE a
         IN  SubSeq(t, n, Min(RunEnd(t, n, Digits), n + 6) - 1)

\* extract_order_id of router.py
extract_order_id(text) ==
    IF Search(Lower(text), OrderIdAt) # NoMatch
    THEN Search(Lower(text), OrderIdAt)
    ELSE Search(Lower(text), OrderNumberAt)

\* \w at position i of t (no position outside t holds one)
IsWordChar(t, i) == i \in 1..Len(t) /\ t[i] \in Alnum \cup {"_"}

\* \b between positions e - 1 and e of t
WordBoundary(t, e) == IsWordChar(t, e - 1) # IsWordChar(t, e)

\* \b(First{m,}Rest*)\b at i, for Rest a superset of First made of word
\* characters and "-": the position after the match, the longest the
\* backtracking finds, or 0
TokenEnd(t, i, First, m, Rest) ==
    LET ends == {e \in (i + m)..RunEnd(t, i, Rest) : WordBoundary(t, e)}
    IN  IF WordBoundary(t, i) /\ RunEnd(t, i, First) >= i + m /\ ends # {}
        THEN CHOOSE e \in ends : \A f \in ends : f <= e
        ELSE 0

\* any(ch.isdigit() for ch in c)
HasDigit(c) == \E k \in 1..Len(c) : c[k] \in Digits

\* the test of extract_model_number on a candidate c, and that of extract_mpn
\* with the [A-Z] that MPN_REGEX starts with
TokenOk(c, kind) ==
    /\ ~StartsAt(c, 1, <<"P","S">>)
    /\ HasDigit(c)
    /\ IF kind = "model" THEN Len(c) >= 6 ELSE c[1] \notin Digits

\* the first of re.findall(\b(First{m,}Rest*)\b, t), from i on, that the
\* extractor of the given kind accepts
RECURSIVE FirstToken(_, _, _, _, _, _)
FirstToken(t, i, First, m, Rest, kind) ==
    IF i > Len(t)
    THEN NoMatch
    ELSE LET e == TokenEnd(t, i, First, m, Rest)
         IN  IF e = 0
             THEN FirstToken(t, i + 1, First, m, Rest, kind)
             ELSE IF TokenOk(SubSeq(t, i, e - 1), kind)
                  THEN SubSeq(t, i, e - 1)
                  ELSE FirstToken(t, e, First, m, Rest, kind)

\* MODEL_REGEX = \b([A-Za-z0-9]{4,}[A-Za-z0-9-]*)\b
extract_model_number(text) ==
    FirstToken(Upper(text), 1, Alnum, 4, Alnum \cup {"-"}, "model")

\* MPN_REGEX = \b([A-Z][A-Z0-9]{4,})\b
extract_mpn(text) == FirstToken(Upper(text), 1, Alnum, 5, Alnum, "mpn")

\* extract_appliance_type
extract_appliance_type(text) ==
    IF Contains(Lower(text), <<"d","i","s","h","w","a","s","h","e","r">>) THEN "dishwasher"
    ELSE IF Contains(Lower(text), <<"f","r","i","d","g","e">>) \/ Contains(Lower(text), <<"r","e","f","r","i","g","e","r","a","t","o","r">>)
         THEN "refrigerator"
         ELSE None

\* ------------------------------------------------------------------------
\* route_intent
\* ------------------------------------------------------------------------

\* the keywords of the policy test, line 118
policy_keywords ==
    {<<"r","e","t","u","r","n"," ","p","o","l","i","c","y">>,
     <<"r","e","t","u","r","n"," ","w","i","n","d","o","w">>, <<"p","o","l","i","c","y">>,
     <<"w","h","y"," ","s","h","o","p">>, <<"w","a","r","r","a","n","t","y">>,
     <<"g","u","a","r","a","n","t","e","e">>,
     <<"s","h","i","p","p","i","n","g"," ","p","o","l","i","c","y">>,
     <<"p","r","i","c","e"," ","m","a","t","c","h">>}

\* the keywords of the order test, line 131
order_keywords ==
    {<<"o","r","d","e","r">>, <<"o","r","d","r">>, <<"o","d","e","r">>,
     <<"o","r","o","d","e","r">>, <<"t","r","a","c","k","i","n","g">>,
     <<"t","r","a","c","k"," ","s","h","i","p","m","e","n","t">>, <<"t","r","a","c","k">>,
     <<"s","h","i","p","m","e","n","t">>, <<"s","h","i","p","p","i","n","g">>,
     <<"m","y"," ","o","r","d","e","r">>, <<"o","r","d","e","r"," ","s","t","a","t","u","s">>,
     <<"r","e","f","u","n","d"," ","m","y">>, <<"m","y"," ","r","e","t","u","r","n">>,
     <<"r","e","t","u","r","n"," ","s","t","a","t","u","s">>,
     <<"i","s"," ","m","y"," ","r","e","t","u","r","n">>}

compat_keywords == {<<"c","o","m","p","a","t","i","b","l","e">>, <<"f","i","t">>,
     <<"w","o","r","k"," ","w","i","t","h">>}

\* repair_keywords of route_intent, lines 181-194
repair_keywords ==
    {<<"l","e","a","k">>, <<"l","e","a","k","i","n","g">>, <<"n","o","i","s","y">>,
     <<"n","o","i","s","e">>, <<"w","o","n","'","t"," ","s","t","a","r","t">>,
     <<"w","o","n","t"," ","s","t","a","r","t">>,
     <<"n","o","t"," ","s","t","a","r","t","i","n","g">>,
     <<"n","o","t"," ","w","o","r","k","i","n","g">>,
     <<"s","t","o","p","p","e","d"," ","w","o","r","k","i","n","g">>,
     <<"n","o","t"," ","d","i","s","p","e","n","s","i","n","g">>,
     <<"n","o","t"," ","m","a","k","i","n","g"," ","i","c","e">>, <<"w","a","r","m">>,
     <<"t","o","o"," ","w","a","r","m">>, <<"n","o","t"," ","c","o","o","l","i","n","g">>,
     <<"n","o","t"," ","c","o","l","d">>, <<"f","r","e","e","z","i","n","g"," ","u","p">>,
     <<"i","c","i","n","g"," ","u","p">>, <<"s","m","e","l","l">>, <<"o","d","o","r">>,
     <<"w","o","n","'","t"," ","f","i","l","l">>, <<"w","o","n","t"," ","f","i","l","l">>,
     <<"w","o","n","'","t"," ","d","r","a","i","n">>,
     <<"w","o","n","t"," ","d","r","a","i","n">>, <<"s","t","u","c","k">>,
     <<"j","a","m","m","e","d">>, <<"o","v","e","r","f","l","o","w">>,
     <<"f","l","o","o","d","i","n","g">>}

howto_keywords ==
    {<<"h","o","w"," ","t","o">>, <<"h","o","w"," ","d","o"," ","i">>,
     <<"w","h","a","t"," ","i","s">>, <<"w","h","a","t"," ","d","o","e","s">>,
     <<"e","x","p","l","a","i","n">>, <<"c","y","c","l","e">>, <<"m","o","d","e">>,
     <<"e","c","o">>, <<"s","a","n","i","t","i","z","e">>,
     <<"q","u","i","c","k"," ","w","a","s","h">>, <<"s","e","t","t","i","n","g","s">>,
     <<"r","e","s","e","t">>, <<"c","l","e","a","n"," ","c","y","c","l","e">>}

\* any(k in msg for k in keywords)
AnyIn(keywords, msg) == \E k \in keywords : Contains(msg, k)

MissingFields_part_only(part_id, model_number) ==
    IF part_id = NoMatch THEN <<"part_id">> ELSE <<>>

\* missing of lines 145-149
MissingFields(part_id, model_number) ==
    (IF part_id = NoMatch THEN <<"part_id">> ELSE <<>>)
    \o (IF model_number = NoMatch THEN <<"model_number">> ELSE <<>>)

Decide_repair_first(msg, part_id, model_number, mpn, order_id) ==
    LET missing == MissingFields(part_id, model_number)
    IN  IF AnyIn(policy_keywords, msg) THEN <<"POLICY", <<>>>>
        ELSE IF order_id # NoMatch \/ AnyIn(order_keywords, msg) THEN <<"ORDER_SUPPORT", <<>>>>
        ELSE IF AnyIn(compat_keywords, msg)
             THEN (IF missing # <<>> THEN <<"CLARIFICATION", missing>>
                                      ELSE <<"COMPAT_CHECK", <<>>>>)
        ELSE IF AnyIn(repair_keywords, msg) THEN <<"REPAIR_HELP", <<>>>>
        ELSE IF part_id # NoMatch \/ mpn # NoMatch THEN <<"PRODUCT_INFO", <<>>>>
        ELSE IF AnyIn(howto_keywords, msg) THEN <<"BLOG_HOWTO", <<>>>>
        ELSE <<"OUT_OF_SCOPE", <<>>>>

\* the intent route_intent decides on, with the missing fields of a
\* compatibility question, from the stripped lower-case message and the
\* extracted identifiers
Decide(msg, part_id, model_number, mpn, order_id) ==
    LET missing == MissingFields(part_id, model_number)
    IN  IF AnyIn(policy_keywords, msg) THEN <<"POLICY", <<>>>>
        ELSE IF order_id # NoMatch \/ AnyIn(order_keywords, msg) THEN <<"ORDER_SUPPORT", <<>>>>
        ELSE IF AnyIn(compat_keywords, msg)
             THEN (IF missing # <<>> THEN <<"CLARIFICATION", missing>>
                                      ELSE <<"COMPAT_CHECK", <<>>>>)
        ELSE IF part_id # NoMatch \/ mpn # NoMatch THEN <<"PRODUCT_INFO", <<>>>>
        ELSE IF AnyIn(repair_keywords, msg) THEN <<"REPAIR_HELP", <<>>>>
        ELSE IF AnyIn(howto_keywords, msg) THEN <<"BLOG_HOWTO", <<>>>>
        ELSE <<"OUT_OF_SCOPE", <<>>>>

\* route_intent(user_message): the RouteDecision
route_intent(user_message) ==
    LET part_id == extract_part_id(user_message)
        model_number == extract_model_number(user_message)
        mpn == extract_mpn(user_message)
        order_id == extract_order_id(user_message)
        d == Decide(Strip(Lower(user_message)), part_id, model_number, mpn, order_id)
    IN  [intent |-> d[1],
         normalized_query |-> user_message,
         metadata |-> [appliance_type |-> extract_appliance_type(user_message),
                       part_id |-> part_id,
                       model_number |-> model_number,
                       manufacturer_part_number |-> mpn,
                       order_id |-> order_id,
                       missing_fields |-> d[2]]]

\* ------------------------------------------------------------------------
\* The handlers behind handle_message. A reply is the sequence of the pieces
\* of text it is made of; a dict is a record; a result that is a plain str s
\* is the record [str |-> s]; a link is its label
\* ------------------------------------------------------------------------

\* metadata None: a record that no dict of the program equals
NoMetadata == [none |-> TRUE]

\* _link_metadata(links); the link {} is ""
link_metadata(links) ==
    LET clean == SelectSeq(links, LAMBDA l : l # "")
    IN  IF clean = <<>> THEN <<>> ELSE [type |-> "links", links |-> clean]

\* int(s) for a string of digits
RECURSIVE ToInt(_)
ToInt(s) ==
    IF s = <<>>
    THEN 0
    ELSE 10 * ToInt(SubSeq(s, 1, Len(s) - 1))
         + (CHOOSE n \in 0..9 : <<"0","1","2","3","4","5","6","7","8","9">>[n + 1] = s[Len(s)])

\* a handler's result r reached with n calls of llm_answer
Handled(r, n) == [payload |-> r, llm |-> n]

\* the reply of _rag_answer without documents (the text of ERROR_RAG_NO_DOCS)
RagNoDocsReply ==
    <<"I couldn't find enough local repair information for that. You can get detailed step-by-step help on PartSelect's repair pages or use the Instant Repairman tool.">>

\* link_meta of _rag_answer
RagLinks == link_metadata(<<"Repair Guides", "Instant Repairman", "Find a Technician">>)

rag_answer_always_llm(docs) ==
    Handled([reply |-> <<"{llm_response}">>, metadata |-> RagLinks], 1)

\* _rag_answer from `if not docs` on, for the list docs that
\* retrieve_documents returned
rag_answer(docs) ==
    IF docs = <<>>
    THEN Handled([reply |-> RagNoDocsReply, metadata |-> RagLinks], 0)
    ELSE Handled([reply |-> <<"{llm_response}",
                              "\n\nFor more detailed repair guides, visit PartSelect's Repair page or use the Instant Repairman tool.">>,
                  metadata |-> RagLinks], 1)

\* preferred_source of handle_repair_help and handle_blog_howto
RagSource(intent) == IF intent = "REPAIR_HELP" THEN "repairs" ELSE "blogs"

\* column ILIKE %s%
ILike(column, s) == Contains(Lower(column), Lower(s))

\* the part handle_product_info finds, <<>> for none; first() of several
\* rows is one of them
FindPart(rd, session) ==
    LET md == rd.metadata
        byId == {r \in session.parts : md.part_id # NoMatch /\ r.part_id = md.part_id}
        byMpn == {r \in session.parts :
                     /\ md.manufacturer_part_number # NoMatch
                     /\ ILike(r.manufacturer_part_number, md.manufacturer_part_number)}
        byModel == {r \in session.parts :
                       /\ md.model_number # NoMatch
                       /\ <<r.part_id, md.model_number>> \in session.mappings
                       /\ md.model_number \in session.models}
        byName == {r \in session.parts : ILike(r.part_name, rd.normalized_query)}
        found == IF byId # {} THEN byId ELSE IF byMpn # {} THEN byMpn
                 ELSE IF byModel # {} THEN byModel ELSE byName
    IN  IF found = {} THEN <<>> ELSE CHOOSE r \in found : TRUE

handle_product_info(rd, session) ==
    LET part == FindPart(rd, session)
    IN  IF part = <<>>
        THEN Handled([str |-> <<"I couldn't find that part in my local PartSelect catalog. Could you double-check the part ID or share the product page URL?">>], 0)
        ELSE Handled([reply |-> <<"{llm_response}">>,
                      metadata |-> [type |-> "product_info", product |-> [id |-> part.part_id]]], 1)

\* resolve_part_identifier, <<>> for None
resolve_part_identifier(session, part_id, mpn) ==
    LET byId == {r \in session.parts : part_id # NoMatch /\ r.part_id = part_id}
        byMpn == {r \in session.parts : mpn # NoMatch /\ ILike(r.manufacturer_part_number, mpn)}
    IN  IF byId # {} THEN CHOOSE r \in byId : TRUE
        ELSE IF byMpn # {} THEN CHOOSE r \in byMpn : TRUE
        ELSE <<>>

handle_compat_check(rd, session) ==
    LET part_id == rd.metadata.part_id
        mpn == rd.metadata.manufacturer_part_number
        model_number == rd.metadata.model_number
        part == resolve_part_identifier(session, part_id, mpn)
    IN  IF (part_id = NoMatch /\ mpn = NoMatch) \/ model_number = NoMatch
        THEN Handled([reply |-> <<"To check compatibility I need both: a PartSelect part ID or manufacturer part number, and your appliance model number.">>,
                      metadata |-> link_metadata(<<"Browse parts">>)], 0)
        ELSE IF part = <<>>
        THEN Handled([reply |-> <<"I couldn't find {identifier} in my catalog.">>,
                      metadata |-> link_metadata(<<"Browse parts", "Contact support">>)], 0)
        ELSE IF <<part.part_id, model_number>> \notin session.mappings
        THEN Handled([reply |-> <<"I don't see {identifier} listed as compatible with model {model_number}.">>,
                      metadata |-> link_metadata(<<IF part.product_url # "" THEN "View product" ELSE "",
                                                   "Contact support">>)], 0)
        ELSE Handled([reply |-> <<"Based on my compatibility data, part {identifier} is compatible with model {model_number}.">>,
                      metadata |-> link_metadata(IF part.product_url # ""
                                                 THEN <<"View product">> ELSE <<>>)], 0)

\* order_id of handle_order_support, lines 460-474: 0 for None
OrderIdOf(rd) ==
    LET given == IF rd.metadata.order_id # NoMatch
                 THEN ToInt(rd.metadata.order_id) ELSE 0
        m == Search(Lower(rd.normalized_query), OrderIdAt)
    IN  IF given # 0 THEN given ELSE IF m # NoMatch THEN ToInt(m) ELSE 0

\* handle_order_support(decision, db), lines 452-565; the rows first() gives
\* are one of those that match
handle_order_support(rd, session) ==
    LET query_lower == Lower(rd.normalized_query)
        order_id == OrderIdOf(rd)
        orders == {o \in session.orders : o.order_id = order_id}
        txns == {t \in session.transactions : t.order_id = order_id}
        order == CHOOSE o \in orders : TRUE
        txn == CHOOSE t \in txns : TRUE
    IN  IF order_id # 0 /\ orders # {}
        THEN Handled([reply |-> <<"{llm_response}">>,
                      metadata |-> [type |-> "order_info",
                                    order |-> [id |-> order.order_id,
                                               status |-> order.order_status,
                                               amount |-> IF txns # {} THEN txn.amount ELSE None,
                                               transactionStatus |-> IF txns # {} THEN txn.status ELSE None]]], 1)
        ELSE IF order_id # 0
        THEN Handled([reply |-> <<"Order #{order_id} not found.">>, metadata |-> NoMetadata], 0)
        ELSE IF AnyIn({<<"l","a","s","t"," ","o","r","d","e","r">>, <<"m","y"," ","o","r","d","e","r">>, <<"w","h","a","t"," ","d","i","d"," ","i"," ","o","r","d","e","r">>}, query_lower)
        THEN Handled([reply |-> <<"To check your orders, please provide your order number.">>,
                      metadata |-> NoMetadata], 0)
        ELSE IF AnyIn({<<"r","e","t","u","r","n">>, <<"r","e","f","u","n","d">>}, query_lower)
        THEN IF order_id # 0
             THEN IF orders # {} /\ order.order_status = "returned"
                  THEN IF txns # {} /\ txn.status = "refunded"
                       THEN Handled([reply |-> <<"Yes, your return for order #{order_id} was accepted. Refund: $", txn.amount>>,
                                     metadata |-> NoMetadata], 0)
                       ELSE Handled([reply |-> <<"Return for order #{order_id} is being processed.">>,
                                     metadata |-> NoMetadata], 0)
                  ELSE IF orders # {}
                  THEN Handled([reply |-> <<"Order #{order_id} is not marked as returned.">>,
                                metadata |-> NoMetadata], 0)
                  ELSE Handled([reply |-> <<"Order #{order_id} not found.">>,
                                metadata |-> NoMetadata], 0)
             ELSE Handled([reply |-> <<"To check your return status, please provide your order number.">>,
                           metadata |-> NoMetadata], 0)
        ELSE Handled([reply |-> <<"I can help with order tracking. Please provide your order number.">>,
                      metadata |-> NoMetadata], 0)

handle_policy(rd, session) ==
    LET q == Lower(rd.normalized_query)
    IN  IF AnyIn({<<"p","o","l","i","c","y">>, <<"r","e","t","u","r","n"," ","w","i","n","d","o","w">>}, q)
        THEN Handled([reply |-> <<"You can review our 365-Day Returns policy online.">>,
                      metadata |-> link_metadata(<<"365-Day Returns">>)], 0)
        ELSE IF AnyIn({<<"w","a","r","r","a","n","t","y">>, <<"g","u","a","r","a","n","t","e","e">>}, q)
        THEN Handled([reply |-> <<"Here's a quick look at our One-Year Warranty.">>,
                      metadata |-> link_metadata(<<"One-Year Warranty">>)], 0)
        ELSE IF AnyIn({<<"s","h","i","p","p","i","n","g">>, <<"f","a","s","t"," ","s","h","i","p","p","i","n","g">>}, q)
        THEN Handled([reply |-> <<"We offer fast shipping on many parts.">>,
                      metadata |-> link_metadata(<<"Fast Shipping">>)], 0)
        ELSE IF AnyIn({<<"p","r","i","c","e"," ","m","a","t","c","h">>}, q)
        THEN Handled([reply |-> <<"We do offer price matching. See the guidelines:">>,
                      metadata |-> link_metadata(<<"Price Match">>)], 0)
        ELSE Handled([reply |-> <<"Here are our key policies. Tap any link to learn more:">>,
                      metadata |-> link_metadata(<<"Fast Shipping", "365-Day Returns",
                                                   "One-Year Warranty", "Price Match">>)], 0)

handle_out_of_scope(rd, session) ==
    Handled([str |-> <<"I can help with refrigerator and dishwasher parts, repair troubleshooting, and customer transactions (order tracking, returns, etc.). I can't assist with questions outside of that scope.">>], 0)

handle_clarification(rd, session) ==
    LET missing == rd.metadata.missing_fields
        asked(field, prompt) ==
            IF \E k \in 1..Len(missing) : missing[k] = field THEN <<prompt>> ELSE <<>>
        prompts == asked("part_id", "the PartSelect part ID (for example PS11752778)")
                   \o asked("model_number", "the appliance model number (usually on a label inside the door frame)")
                   \o asked("order_id", "your order number so I can talk about status/returns")
    IN  IF prompts = <<>>
        THEN Handled([str |-> <<"I need a bit more information to help.">>], 0)
        ELSE Handled([str |-> <<"To help with that, please provide ">> \o prompts], 0)

format_response_raw(payload) == payload

\* _format_response(payload)
format_response(payload) ==
    IF "str" \notin DOMAIN payload /\ "reply" \in DOMAIN payload
    THEN payload
    ELSE [reply |-> payload.str, metadata |-> NoMetadata]

\* ------------------------------------------------------------------------
\* handle_message, step by step
\* ------------------------------------------------------------------------

\* top_k of the call of _rag_answer
RagTopK == 6

\* handle_message(user_message, db), line 31: the message is routed
Route(Msgs) ==
    /\ hpc = "idle"
    /\ \E m \in Msgs :
           /\ message' = m
           /\ decision' = route_intent(m)
    /\ hpc' = "dispatch"
    /\ llm_calls' = 0
    /\ UNCHANGED <<retrieval, response, db, llm>>

\* handle_repair_help and handle_blog_howto up to the call of
\* retrieve_documents by _rag_answer, handlers.py lines 153-157; the handler
\* is caller 1
RagRetrieve ==
    /\ hpc = "dispatch"
    /\ decision.intent \in {"REPAIR_HELP", "BLOG_HOWTO"}
    /\ Invoke(1, decision.normalized_query, RagTopK, RagSource(decision.intent),
              DEFAULT_COLLECTIONS)
    /\ hpc' = "retrieve"
    /\ UNCHANGED <<index, simfn, failing, message, decision, response, llm_calls, db, llm>>

\* retrieve_documents returned: the rest of _rag_answer, and of handle_message
\* (d["text"] of line 182 raises on a document without text)
RagAnswer ==
    /\ hpc = "retrieve"
    /\ pc[1] = "done"
    /\ IF \E k \in 1..Len(result[1]) : "text" \notin DOMAIN result[1][k]
       THEN /\ hpc' = "raised"
            /\ UNCHANGED <<response, llm_calls>>
       ELSE /\ response' = format_response(rag_answer(result[1]).payload)
            /\ llm_calls' = llm_calls + rag_answer(result[1]).llm
            /\ hpc' = "done"
    /\ UNCHANGED <<retrieval, message, decision, db, llm>>

\* retrieve_documents raised: neither _rag_answer nor the handler nor
\* handle_message has a try around the call
RagRaise ==
    /\ hpc = "retrieve"
    /\ pc[1] = "raised"
    /\ hpc' = "raised"
    /\ UNCHANGED <<retrieval, message, decision, response, llm_calls, db, llm>>

\* the branch of handle_message for intent, whose handler gave handled
Respond(intent, handled) ==
    /\ hpc = "dispatch"
    /\ decision.intent = intent
    /\ response' = format_response(handled.payload)
    /\ llm_calls' = llm_calls + handled.llm
    /\ hpc' = "done"
    /\ UNCHANGED <<retrieval, message, decision, db, llm>>

ProductInfo == Respond("PRODUCT_INFO", handle_product_info(decision, db))

CompatCheck == Respond("COMPAT_CHECK", handle_compat_check(decision, db))

OrderSupport == Respond("ORDER_SUPPORT", handle_order_support(decision, db))

Policy == Respond("POLICY", handle_policy(decision, db))

OutOfScope == Respond("OUT_OF_SCOPE", handle_out_of_scope(decision, db))

Clarification == Respond("CLARIFICATION", handle_clarification(decision, db))

\* ------------------------------------------------------------------------
\* handle_message on every message made of a few fragments
\* ------------------------------------------------------------------------

\* pieces of messages: the phrasings of an order number, a part id, a model
\* number, and a keyword of each list of the router but the order's, which
\* the phrasings hold
Fragments ==
    {<<"o","r","d","e","r">>, <<"T","r","a","c","k"," ","o","r","d","e","r">>, <<"M","y"," ","o","r","d","e","r"," ","n","u","m","b","e","r"," ","i","s">>, <<"o","r","d","e","r","i","d">>, <<"#","1">>, <<"1">>,
     <<"P","S","1","2","3","4","5","6">>, <<"W","D","T","7","8","0","S","A","E","M","1">>, <<"c","o","m","p","a","t","i","b","l","e">>, <<"I","s"," ","P","S","1","2","3","4","5","6"," ","c","o","m","p","a","t","i","b","l","e"," ","w","i","t","h">>,
     <<"d","r","a","i","n","i","n","g">>, <<"l","e","a","k","i","n","g">>, <<"p","o","l","i","c","y">>, <<"e","c","o"," ","m","o","d","e">>}

\* largest number of fragments of a message
MaxFrags == 2

\* " ".join(fs)
RECURSIVE Join(_)
Join(fs) ==
    IF Len(fs) <= 1
    THEN (IF fs = <<>> THEN <<>> ELSE fs[1])
    ELSE fs[1] \o <<" ">> \o Join(Tail(fs))

Messages == {Join(fs) : fs \in SeqsUpTo(Fragments, MaxFrags)}

\* the rows of the fixtures of tests/conftest.py
SampleDb ==
    [parts |-> {[part_id |-> <<"P","S","1","2","3","4","5","6">>,
                 manufacturer_part_number |-> <<"W","P","W","1","0","3","2","1","3","0","4">>,
                 part_name |-> <<"W","a","t","e","r"," ","I","n","l","e","t"," ","V","a","l","v","e">>,
                 product_url |-> "https://www.partselect.com/PS123456"]},
     models |-> {<<"W","D","T","7","8","0","S","A","E","M","1">>},
     mappings |-> {<<<<"P","S","1","2","3","4","5","6">>, <<"W","D","T","7","8","0","S","A","E","M","1">>>>},
     orders |-> {[order_id |-> 1, order_status |-> "shipped"]},
     transactions |-> {[order_id |-> 1, amount |-> "45.99", status |-> "completed"]}]

\* handle_message is about to be called; its _rag_answer is caller 1
ChatIdle ==
    /\ LlmAt("off")
    /\ pc = [p \in Procs |-> IF p = 1 THEN "idle" ELSE "off"]
    /\ InitLocals
    /\ message = <<>>
    /\ decision = <<>>
    /\ hpc = "idle"
    /\ response = <<>>
    /\ llm_calls = 0

InitChat ==
    /\ index = TwoCallerIndex
    /\ simfn = SimilarityOn(index)
    /\ failing = {}
    /\ db \in {SampleDb, EmptyDb}
    /\ ChatIdle

\* the steps of retrieve_documents
Retrieve == \E p \in Procs : Gather(p) \/ Check(p) \/ Select(p) \/ Return(p)

NextChat ==
    \/ Route(Messages)
    \/ RagRetrieve
    \/ Retrieve
    \/ RagAnswer
    \/ ProductInfo
    \/ CompatCheck
    \/ OrderSupport
    \/ Policy
    \/ OutOfScope
    \/ Clarification

SpecChat == InitChat /\ [][NextChat]_vars

\* ------------------------------------------------------------------------
\* _rag_answer over a search collaborator that may raise or hold nothing
\* ------------------------------------------------------------------------

\* the messages that reach _rag_answer
RagMessages ==
    {m \in Messages : route_intent(m).intent \in {"REPAIR_HELP", "BLOG_HOWTO"}}

\* no document at all, documents in repairs only, and documents in both
RagIndexes ==
    {[c \in Collections |-> <<>>],
     [c \in Collections |-> IF c = "repairs" THEN TwoCallerIndex[c] ELSE <<>>],
     TwoCallerIndex}

InitRag ==
    /\ index \in RagIndexes
    /\ simfn = SimilarityOn(index)
    /\ failing \in SUBSET Collections
    /\ db = EmptyDb
    /\ ChatIdle

NextRag ==
    \/ Route(RagMessages)
    \/ RagRetrieve
    \/ Retrieve
    \/ RagAnswer
    \/ RagRaise

SpecRag == InitRag /\ [][NextRag]_vars

\* ------------------------------------------------------------------------
\* Every top_k, the non-positive ones included, over a collaborator that
\* answers or raises
\* ------------------------------------------------------------------------

\* top_k from -1 on
AnyTopK == (0 - 1)..(MaxK + 2)

InitBudget ==
    /\ index \in RagIndexes
    /\ simfn = SimilarityOn(index)
    /\ failing \in SUBSET Collections
    /\ OneCaller

NextBudget ==
    \E p \in Procs :
        \/ Call(p, {QueryPumpsLeak}, AnyTopK, PreferredSources, CollectionTuples)
        \/ Gather(p)
        \/ Check(p)
        \/ Select(p)
        \/ Return(p)

\* a call that has started goes on: nothing in retrieve_documents waits
SpecBudget ==
    /\ InitBudget
    /\ [][NextBudget]_vars
    /\ \A p \in Procs : WF_vars(Gather(p) \/ Check(p) \/ Select(p) \/ Return(p))

\* ------------------------------------------------------------------------
\* llm_answer: the retries around the chat-completion call
\* ------------------------------------------------------------------------

\* client.chat.completions.create(...) raised, or reading the content did
Raises == [kind |-> "raises"]

\* the call gave a message whose content is None
NoContent == [kind |-> "none"]

\* contents of a message: empty, blank, and texts with and without markdown
MessageContents == {<<>>, <<" "," ">>, <<"*","*","C","h","e","c","k","*","*"," ","t","h","e"," ","v","a","l","v","e","."," ">>, <<"o","k">>, <<"-"," ">>}

\* what one chat-completion call may give
Completions == {Raises, NoContent} \cup {[kind |-> "content", content |-> c] : c \in MessageContents}

\* clean_llm_response(text) on the contents
clean_llm_response(text) ==
    CASE text = <<"*","*","C","h","e","c","k","*","*"," ","t","h","e"," ","v","a","l","v","e","."," ">> -> <<"C","h","e","c","k"," ","t","h","e"," ","v","a","l","v","e",".">>
      [] text = <<"o","k">> -> <<"o","k">>
      [] OTHER -> <<>>

Failed_blank_accepted(r) == r.kind # "content" \/ r.content = <<>>

\* the attempt that gave r ends in the except clause: the call raised, or
\* `not response or not response.strip()` raised ValueError
Failed(r) == r.kind # "content" \/ Strip(r.content) = <<>>

\* the fallback of llm_answer (the text of ERROR_LLM_FAILED)
LlmFallback ==
    <<"I'm having trouble processing that right now. Please try again in a moment, or visit PartSelect.com for immediate assistance.">>

WaitTime_fixed(n) == 1

\* wait_time = 2 ** attempt
WaitTime(n) == 2 ^ n

\* attempt < max_retries - 1
Sleeps(n) == n < max_retries - 1

\* llm_answer(system_prompt, user_prompt, context, max_retries) up to the for
\* loop, with max_retries from Ms
LlmCall(Ms) ==
    /\ lpc \in {"idle", "done"}
    /\ max_retries' \in Ms
    /\ attempt' = 0
    /\ outcomes' = <<>>
    /\ slept' = <<>>
    /\ answer' = <<>>
    /\ lpc' = "loop"
    /\ UNCHANGED <<retrieval, message, decision, hpc, response, llm_calls, db>>

\* one iteration of `for attempt in range(max_retries)`, lines 115-137
Attempt ==
    /\ lpc = "loop"
    /\ attempt < max_retries
    /\ \E r \in Completions :
           /\ outcomes' = Append(outcomes, r)
           /\ IF Failed(r)
              THEN /\ slept' = IF Sleeps(attempt) THEN Append(slept, WaitTime(attempt)) ELSE slept
                   /\ attempt' = attempt + 1
                   /\ UNCHANGED <<lpc, answer>>
              ELSE /\ answer' = clean_llm_response(r.content)
                   /\ lpc' = "done"
                   /\ UNCHANGED <<slept, attempt>>
    /\ UNCHANGED <<retrieval, message, decision, hpc, response, llm_calls, db, max_retries>>

\* after the loop, lines 139-145
Fallback ==
    /\ lpc = "loop"
    /\ attempt >= max_retries
    /\ answer' = LlmFallback
    /\ lpc' = "done"
    /\ UNCHANGED <<retrieval, message, decision, hpc, response, llm_calls, db,
                   max_retries, attempt, outcomes, slept>>

\* largest max_retries
MaxRetries == 4

\* max_retries: int = 3
DefaultRetries == 3

InitLlm ==
    /\ index = TwoCallerIndex
    /\ simfn = SimilarityOn(index)
    /\ failing = {}
    /\ pc = [p \in Procs |-> "off"]
    /\ InitLocals
    /\ message = <<>>
    /\ decision = <<>>
    /\ hpc = "off"
    /\ response = <<>>
    /\ llm_calls = 0
    /\ db = EmptyDb
    /\ LlmAt("idle")

NextLlm ==
    \/ LlmCall(0..MaxRetries)
    \/ Attempt
    \/ Fallback

SpecLlm == InitLlm /\ [][NextLlm]_vars

\* ------------------------------------------------------------------------
\* handle_message on questions about an order and about its return
\* ------------------------------------------------------------------------

\* order_status of the order, and status of its transaction
OrderStatuses == {"shipped", "delivered", "returned"}

TransactionStatuses == {"completed", "pending", "refunded"}

\* the databases without order, and with order 3 in each status, without
\* and with a transaction in each status
ReturnDbs ==
    {EmptyDb}
    \cup {[EmptyDb EXCEPT !.orders = {[order_id |-> 3, order_status |-> st]},
                          !.transactions = txns] :
            st \in OrderStatuses,
            txns \in {{}} \cup {{[order_id |-> 3, amount |-> "45.99", status |-> ts]} :
                                   ts \in TransactionStatuses}}

\* questions about the return with and without the order number (the
\* examples of the handler), and other questions about orders
ReturnMessages ==
    {<<"W","a","s"," ","m","y"," ","r","e","t","u","r","n"," ","a","c","c","e","p","t","e","d"," ","f","o","r"," ","o","r","d","e","r"," ","#","3","?">>,
     <<"W","a","s"," ","m","y"," ","r","e","t","u","r","n"," ","a","c","c","e","p","t","e","d","?">>,
     <<"H","a","s"," ","t","h","e"," ","r","e","f","u","n","d"," ","f","o","r"," ","o","r","d","e","r"," ","3"," ","b","e","e","n"," ","i","s","s","u","e","d","?">>,
     <<"r","e","f","u","n","d"," ","m","y"," ","p","a","r","t">>,
     <<"T","r","a","c","k"," ","o","r","d","e","r"," ","#","3">>,
     <<"W","h","a","t"," ","d","i","d"," ","I"," ","o","r","d","e","r"," ","l","a","s","t","?">>}

InitReturns ==
    /\ index = TwoCallerIndex
    /\ simfn = SimilarityOn(index)
    /\ failing = {}
    /\ db \in ReturnDbs
    /\ ChatIdle

NextReturns ==
    \/ Route(ReturnMessages)
    \/ OrderSupport

SpecReturns == InitReturns /\ [][NextReturns]_vars

\* ------------------------------------------------------------------------
\* handle_message on compatibility questions
\* ------------------------------------------------------------------------

\* manufacturer part numbers: that of the part of the fixtures, with and
\* without its prefix
MpnsAsked == {<<"W","P","W","1","0","3","2","1","3","0","4">>, <<"W","1","0","3","2","1","3","0","4">>}

\* PartSelect ids: that of the part of the fixtures, and another
PartIdsAsked == {<<"P","S","1","2","3","4","5","6">>, <<"P","S","9","9","9","9","9","9">>}

\* model numbers: that of the fixtures, another, and none
ModelsAsked == {<<"W","D","T","7","8","0","S","A","E","M","1">>, <<"W","R","F","5","5","5","S","D","F","Z">>}

CompatForms == {"fit", "compatible", "work with"}

\* the question of a form about the part named id and the appliance named m
CompatQuestionOf(form, id, m) ==
    CASE form = "fit" -> <<"D","o","e","s"," ">> \o id \o <<" ","f","i","t"," ","m","y"," ">> \o m \o <<" ","m","o","d","e","l","?">>
      [] form = "compatible" -> <<"I","s"," ">> \o id \o <<" ","c","o","m","p","a","t","i","b","l","e"," ","w","i","t","h"," ">> \o m \o <<"?">>
      [] form = "work with" -> <<"W","i","l","l"," ">> \o id \o <<" ","w","o","r","k"," ","w","i","t","h"," ">> \o m

CompatMessages ==
    {CompatQuestionOf(form, id, m) :
        form \in CompatForms,
        id \in MpnsAsked \cup PartIdsAsked \cup {<<"i","t">>},
        m \in ModelsAsked \cup {<<"d","i","s","h","w","a","s","h","e","r">>}}

\* the fixtures, the fixtures without the mapping of the part to the model,
\* and no rows
CompatDbs == {SampleDb, [SampleDb EXCEPT !.mappings = {}], EmptyDb}

InitCompat ==
    /\ index = TwoCallerIndex
    /\ simfn = SimilarityOn(index)
    /\ failing = {}
    /\ db \in CompatDbs
    /\ ChatIdle

NextCompat ==
    \/ Route(CompatMessages)
    \/ CompatCheck
    \/ Clarification

SpecCompat == InitCompat /\ [][NextCompat]_vars

\* ------------------------------------------------------------------------
\* Two callers whose preferred source may match every candidate, some, or
\* none
\* ------------------------------------------------------------------------

\* no preferred source, and each collection as the preferred source
EitherSource == {None} \cup Collections

InitUniform == InitTwo

NextUniform ==
    \E p \in Procs :
        \/ Call(p, {QueryPumpsLeak}, 1..MaxK, EitherSource, CollectionTuples)
        \/ Gather(p)
        \/ Check(p)
        \/ Select(p)
        \/ Return(p)

SpecUniform == InitUniform /\ [][NextUniform]_vars

\* ------------------------------------------------------------------------
\* Properties of retrieve_documents
\* ------------------------------------------------------------------------

Returned(p) == pc[p] = "done"

InLoop(p) == pc[p] \in {"select", "break", "done"}

Refs(list) == {list[i].ref : i \in 1..Len(list)}

Elems(list) == {list[i] : i \in 1..Len(list)}

\* C1: a returned list is never longer than the pool nor than top_k
C1_OutputBound ==
    \A p \in Procs :
        Returned(p) => Len(result[p]) <= Min(Len(candidates[p]), top_k[p])

\* a call that returned top_k candidates out of a larger pool
C1_Witness ==
    \E p \in Procs :
        Returned(p) /\ Len(candidates[p]) > top_k[p] /\ Len(result[p]) = top_k[p]

\* during and after the loop, selected and remaining share no candidate and
\* hold each candidate of the pool exactly once; no returned candidate repeats
C2_Partition ==
    \A p \in Procs :
        InLoop(p) =>
            /\ Refs(selected[p]) \cap Refs(remaining[p]) = {}
            /\ Refs(selected[p]) \cup Refs(remaining[p]) = Refs(candidates[p])
            /\ Cardinality(Refs(candidates[p])) = Len(candidates[p])
            /\ Len(selected[p]) + Len(remaining[p]) = Len(candidates[p])
            /\ Cardinality(Refs(result[p])) = Len(result[p])

\* once gathered, the pool is the same list after every step of the loop
C2_PoolFrozen ==
    \A p \in Procs :
        pc[p] \in {"select", "break"} => candidates'[p] = candidates[p]

\* C2: selected and remaining partition the pool at every step of the loop,
\* the pool is not modified after gathering, and no candidate is returned twice
C2_NoDuplicates == []C2_Partition /\ [][C2_PoolFrozen]_vars

\* a call that returned after moving two candidates out of a pool of three
C2_Witness ==
    \E p \in Procs :
        /\ Returned(p)
        /\ Len(candidates[p]) = 3
        /\ Len(result[p]) = 2
        /\ Len(remaining[p]) = 1

NoRepeats(seq) == \A i \in 1..Len(seq), j \in 1..Len(seq) : i # j => seq[i] # seq[j]

\* C3 as stated: the ids of the returned candidates are pairwise distinct
C3_DistinctIds ==
    \A p \in Procs :
        Returned(p) => NoRepeats([i \in 1..Len(result[p]) |-> result[p][i].id])

\* C3, amended: over a tuple of pairwise distinct collections, the pairs
\* (source_collection, id) of the returned candidates are pairwise distinct
C3_DistinctSourceIds ==
    \A p \in Procs :
        (Returned(p) /\ NoRepeats(collections[p])) =>
            NoRepeats([i \in 1..Len(result[p]) |->
                          <<result[p][i].source_collection, result[p][i].id>>])

\* a call over distinct collections that returned one id twice, once from
\* each collection
C3_Witness ==
    \E p \in Procs :
        /\ Returned(p)
        /\ NoRepeats(collections[p])
        /\ \E i, j \in 1..Len(result[p]) :
               /\ i # j
               /\ result[p][i].id = result[p][j].id
               /\ result[p][i].source_collection # result[p][j].source_collection

\* every collection of the call answers with no document
AllResponsesEmpty(p) ==
    \A i \in 1..Len(collections[p]) :
        query_collection(query[p], collections[p][i], top_k[p]) = <<>>

\* C4: when every queried collection returns no candidate, the call returns
\* the empty list, whatever top_k and preferred_source
C4_EmptyPool ==
    \A p \in Procs :
        AllResponsesEmpty(p) =>
            /\ pc[p] \notin {"select", "break"}
            /\ Returned(p) => result[p] = <<>>

\* a call with a preferred source that returned from an empty pool
C4_Witness ==
    \E p \in Procs :
        /\ Returned(p)
        /\ AllResponsesEmpty(p)
        /\ collections[p] # <<>>
        /\ Truthy(preferred_source[p])
        /\ top_k[p] > 1

\* the arguments of the call of p
ArgsOf(p) == <<query[p], top_k[p], preferred_source[p], collections[p]>>

\* C5: two calls with the same arguments have built the same pool and
\* returned the same list, whatever calls came before or ran in between
C5_Deterministic ==
    \A p, q \in Procs :
        (Returned(p) /\ Returned(q) /\ ArgsOf(p) = ArgsOf(q)) =>
            /\ candidates[p] = candidates[q]
            /\ result[p] = result[q]

\* both callers returned two candidates, in another order than the pool's,
\* from calls with the same arguments
C5_Witness ==
    /\ Returned(1) /\ Returned(2)
    /\ ArgsOf(1) = ArgsOf(2)
    /\ Truthy(preferred_source[1])
    /\ Len(result[1]) = 2
    /\ result[1] # SubSeq(candidates[1], 1, 2)
    /\ result[2] = result[1]

\* x is preferred and y is not, and they differ in nothing else that is scored
PreferredTwin(p, x, y) ==
    /\ Truthy(preferred_source[p])
    /\ x.text = y.text
    /\ x.distance = y.distance
    /\ x.source_collection = preferred_source[p]
    /\ y.source_collection # preferred_source[p]

\* C6: of two candidates alike but for the source, the preferred one scores at
\* least as high while both remain, and the other one is never selected while
\* the preferred one remains
C6_PreferenceMonotone ==
    \A p \in Procs :
        InLoop(p) =>
            /\ \A x, y \in Elems(remaining[p]) :
                   PreferredTwin(p, x, y) => RatGeq(mmr_score(p, x), mmr_score(p, y))
            /\ \A x \in Elems(remaining[p]), y \in Elems(selected[p]) :
                   ~PreferredTwin(p, x, y)

\* the preferred twin was gathered after the other one and selected before it
C6_Witness ==
    \E p \in Procs :
        /\ pc[p] = "select"
        /\ \E x \in Elems(selected[p]), y \in Elems(remaining[p]) :
               PreferredTwin(p, x, y) /\ y.ref < x.ref

\* a and b are near-identical texts: _similarity is at least 0.8 both ways
NearIdentical(a, b) ==
    RatGeq(similarity(a, b), <<4, 5>>) /\ RatGeq(similarity(b, a), <<4, 5>>)

\* text c is distinct from a and b: every _similarity between c and one of
\* them is strictly lower than the _similarity of a and b, both ways
DistinctFrom(c, a, b) ==
    \A s \in {similarity(c, a), similarity(a, c), similarity(c, b), similarity(b, c)} :
        RatGreater(similarity(a, b), s) /\ RatGreater(similarity(b, a), s)

\* the pool of call p is x1, x2, y in some order, x1 and x2 near-identical, y
\* distinct and at least as relevant as the less relevant of x1 and x2
RedundantPair(p, x1, x2, y) ==
    /\ top_k[p] = 2
    /\ Len(candidates[p]) = 3
    /\ {x1.ref, x2.ref, y.ref} = Refs(candidates[p])
    /\ x1.ref # x2.ref
    /\ NearIdentical(x1.text, x2.text)
    /\ DistinctFrom(y.text, x1.text, x2.text)
    /\ base_score(p, y) >= Min(base_score(p, x1), base_score(p, x2))

\* C7: from a pool of two near-identical candidates and a distinct one of
\* comparable base relevance, top_k = 2 never returns both near-identical ones
C7_RedundancySuppression ==
    \A p \in Procs :
        Returned(p) =>
            \A x1, x2, y \in Elems(candidates[p]) :
                RedundantPair(p, x1, x2, y) =>
                    ~({x1.ref, x2.ref} \subseteq Refs(result[p]))

\* the distinct candidate was returned second although the near-identical
\* one gathered before it has the same base relevance
C7_Witness ==
    \E p \in Procs :
        /\ Returned(p)
        /\ \E x1, x2, y \in Elems(candidates[p]) :
               /\ RedundantPair(p, x1, x2, y)
               /\ result[p] = <<x1, y>>
               /\ base_score(p, y) = base_score(p, x2)
               /\ x2.ref < y.ref

\* the candidate of the pool of p with the given id
PoolItem(p, id) == CHOOSE x \in Elems(candidates[p]) : x.id = id

\* a has been selected and b and c remain
AfterA(p) ==
    /\ pc[p] = "select"
    /\ Len(selected[p]) = 1
    /\ selected[p][1].id = "a"

\* C8 as stated: once a is selected, some similarity of c to a between 0 and 1
\* makes the mmr_score of c surpass that of b
C8_CanSurpass ==
    \A p \in Procs :
        AfterA(p) =>
            \E v \in SimilarityValues :
                RatGreater(MmrOf(base_score(p, PoolItem(p, "c")), v),
                           mmr_score(p, PoolItem(p, "b")))

\* C8, amended: once a is selected, the mmr_score of b is above that of c for
\* every similarity of c to a between 0 and 1, and the call returns a then b
C8_RelevanceWins ==
    \A p \in Procs :
        /\ AfterA(p) =>
               \A v \in SimilarityValues :
                   RatGreater(mmr_score(p, PoolItem(p, "b")),
                              MmrOf(base_score(p, PoolItem(p, "c")), v))
        /\ Returned(p) => [i \in 1..Len(result[p]) |-> result[p][i].id] = <<"a", "b">>

\* a then b returned although c is not similar to a at all
C8_Witness ==
    \E p \in Procs :
        /\ Returned(p)
        /\ Len(candidates[p]) = 3
        /\ similarity("eco mode cycle explanation",
                      "dishwasher leaking water inlet valve") = <<0, SimScale>>
        /\ [i \in 1..Len(result[p]) |-> result[p][i].id] = <<"a", "b">>

\* a letter or a digit, in either case
IsAlnum(c) == LowerChar(c) \in TokenChars

\* q has no run of four letters or digits
NoLongRun(q) ==
    \A i \in 1..(Len(q) - 3) : \E d \in 0..3 : ~IsAlnum(q[i + d])

\* kb is a rational between 0 and 1, and 0 for a query without a long token
BonusInRange(q, kb) ==
    /\ kb[2] > 0
    /\ 0 <= kb[1]
    /\ kb[1] <= kb[2]
    /\ NoLongRun(q) => kb[1] = 0

\* C9: the keyword bonus of every query and text lies between 0.0 and 1.0 and
\* is 0.0 when the query has no token longer than 3 characters
C9_KeywordBonusBounds ==
    \A p \in Procs :
        \A x \in Elems(candidates[p]) : BonusInRange(query[p], x.keyword_bonus)

\* a query of two tokens of three characters, both in the text of a gathered
\* candidate whose bonus is 0.0
C9_Witness ==
    \E p \in Procs :
        /\ Returned(p)
        /\ query[p] = <<"A","1","A","-","A","A","A">>
        /\ \E x \in Elems(result[p]) :
               /\ x.text = "A1A1 aaaa"
               /\ x.keyword_bonus = <<0, 1>>

\* C10: with top_k at least the size of a non-empty pool, the returned list
\* holds every candidate of the pool exactly once
C10_WholePool ==
    \A p \in Procs :
        (Returned(p) /\ Len(candidates[p]) >= 1 /\ top_k[p] >= Len(candidates[p])) =>
            /\ Len(result[p]) = Len(candidates[p])
            /\ Refs(result[p]) = Refs(candidates[p])

\* a whole pool returned in another order than the one it was gathered in
C10_Witness ==
    \E p \in Procs :
        /\ Returned(p)
        /\ Len(candidates[p]) >= 2
        /\ top_k[p] >= Len(candidates[p])
        /\ Len(result[p]) = Len(candidates[p])
        /\ result[p] # candidates[p]
\* the distance of x is absent: the key is lacking or holds None
DistanceAbsent(x) == Get(x, "distance", NoDistance) = NoDistance

\* x and y have the same keyword_bonus and the same source_collection
SameBonusAndSource(x, y) ==
    /\ x.keyword_bonus = y.keyword_bonus
    /\ x.source_collection = y.source_collection

\* C11: a candidate whose distance is absent never has a higher base
\* relevance than a candidate with the same keyword_bonus and the same
\* source_collection whose distance is present, whatever that distance is
C11_AbsentIsMaximal ==
    \A p \in Procs : \A x, y \in Elems(candidates[p]) :
        (DistanceAbsent(x) /\ ~DistanceAbsent(y) /\ SameBonusAndSource(x, y)) =>
            base_score(p, x) <= base_score(p, y)

\* a candidate without distance was returned ahead of one of the same
\* collection and keyword_bonus whose distance is 1.5
C11_AheadOfPresent ==
    \E p \in Procs :
        /\ Returned(p)
        /\ \E i, j \in 1..Len(result[p]) :
               /\ i < j
               /\ DistanceAbsent(result[p][i])
               /\ "distance" \in DOMAIN result[p][j]
               /\ result[p][j].distance = 150
               /\ SameBonusAndSource(result[p][i], result[p][j])

\* x lacks one of the keys distance, text and metadata
Malformed(x) == {"distance", "text", "metadata"} \ DOMAIN x # {}

\* the document of the index that candidate x of call p was made from
DocOf(p, x) ==
    CHOOSE d \in Elems(index[x.source_collection]) : d.id = x.id

\* C15: no call raises whatever keys the documents lack; a candidate without
\* distance has the base relevance of distance 1.0, one without text the
\* keyword_bonus of the empty text, every candidate is its document with the
\* two keys set and nothing else touched, and every candidate of the pool is
\* returned when top_k is at least the size of the pool
C15_MalformedTolerated ==
    \A p \in Procs :
        /\ pc[p] # "raised"
        /\ \A x \in Elems(candidates[p]) :
               /\ "distance" \notin DOMAIN x =>
                      base_score(p, x) = base_score(p, [distance |-> 100] @@ x)
               /\ "text" \notin DOMAIN x =>
                      x.keyword_bonus = keyword_bonus(query[p], Chars(""))
               /\ DOMAIN x = DOMAIN DocOf(p, x) \cup {"ref", "source_collection", "keyword_bonus"}
               /\ \A key \in DOMAIN DocOf(p, x) : x[key] = DocOf(p, x)[key]
        /\ (Returned(p) /\ top_k[p] >= Len(candidates[p])) =>
               \A x \in Elems(candidates[p]) : x \in Elems(result[p])

\* a candidate lacking all three keys was returned ahead of a candidate of
\* the same collection that has them
C15_Witness ==
    \E p \in Procs :
        /\ Returned(p)
        /\ \E i, j \in 1..Len(result[p]) :
               /\ i < j
               /\ {"distance", "text", "metadata"} \cap DOMAIN result[p][i] = {}
               /\ ~Malformed(result[p][j])
               /\ result[p][j].source_collection = result[p][i].source_collection

\* x comes from the preferred collection of call p
FromPreferred(p, x) ==
    Truthy(preferred_source[p]) /\ x.source_collection = preferred_source[p]

\* the base relevance of x without any preference, in 1/Unit
UnbiasedBase(x) == KeywordTerm(x) - DistanceOr1(x) * (Unit \div 100)

\* the mmr_score item had when the last of selected[p] was picked
MmrAtLastPick(p, item) ==
    MmrOf(base_score(p, item),
          redundancy(item, SubSeq(selected[p], 1, Len(selected[p]) - 1)))

\* C12: preferred_source adds 0.1 to the base relevance of the candidates of
\* that collection and nothing to the others; a preferred candidate is never
\* picked while a candidate of another collection with a higher mmr_score
\* remains; with top_k at least the pool size every candidate of another
\* collection is returned
C12_FavoursNeverForces ==
    \A p \in Procs :
        /\ \A x \in Elems(candidates[p]) :
               base_score(p, x) - UnbiasedBase(x) =
                   IF FromPreferred(p, x) THEN Unit \div 10 ELSE 0
        /\ (InLoop(p) /\ selected[p] # <<>>) =>
               LET picked == selected[p][Len(selected[p])]
               IN  \A y \in Elems(remaining[p]) :
                       (FromPreferred(p, picked) /\ ~FromPreferred(p, y)) =>
                           ~RatGreater(MmrAtLastPick(p, y), MmrAtLastPick(p, picked))
        /\ (Returned(p) /\ top_k[p] >= Len(candidates[p])) =>
               \A y \in Elems(candidates[p]) :
                   ~FromPreferred(p, y) => y \in Elems(result[p])

\* under a preferred_source, a candidate of the other collection was returned
\* first, ahead of a candidate of the preferred one, and the whole pool came back
C12_Witness ==
    \E p \in Procs :
        /\ Returned(p)
        /\ Truthy(preferred_source[p])
        /\ Len(result[p]) = Len(candidates[p])
        /\ Len(result[p]) >= 2
        /\ ~FromPreferred(p, result[p][1])
        /\ \E j \in 2..Len(result[p]) : FromPreferred(p, result[p][j])

\* the greatest similarity of the text of item to those of the list sel, 0.0
\* for the empty list
MaxSimilarity(item, sel) ==
    IF sel = <<>>
    THEN <<0, 1>>
    ELSE LET sims == {similarity(TextOf(item), TextOf(sel[k])) : k \in 1..Len(sel)}
         IN  CHOOSE v \in sims : \A w \in sims : RatGeq(v, w)

\* 0.7 * base - 0.3 * redundancy of item against sel, in 1/(10 * Unit)
StatedMmr(p, item, sel) ==
    LET v == MaxSimilarity(item, sel)
    IN  <<7 * base_score(p, item) * v[2] - 3 * Unit * v[1], v[2]>>

\* two rationals of the same value
RatEqual(x, y) == x[1] * y[2] = y[1] * x[2]

\* what was selected before the last pick of call p
BeforeLastPick(p) == SubSeq(selected[p], 1, Len(selected[p]) - 1)

\* C20: the candidate picked last has a stated mmr_score no lower than that
\* of every candidate still remaining, and comes before, in pool order, every
\* remaining candidate with the same score; the first pick has the greatest
\* base relevance of the pool
C20_FirstMaximal ==
    \A p \in Procs :
        (InLoop(p) /\ selected[p] # <<>>) =>
            LET picked == selected[p][Len(selected[p])]
                before == BeforeLastPick(p)
            IN  /\ \A y \in Elems(remaining[p]) :
                       \/ RatGreater(StatedMmr(p, picked, before), StatedMmr(p, y, before))
                       \/ /\ RatEqual(StatedMmr(p, picked, before), StatedMmr(p, y, before))
                          /\ picked.ref < y.ref
                /\ \A y \in Elems(candidates[p]) :
                       base_score(p, selected[p][1]) >= base_score(p, y)

\* the second pick was a tie: a remaining candidate had the score of the one
\* picked, which comes first in the pool, and a candidate of greater base
\* relevance than the one picked was passed over for its redundancy
C20_Witness ==
    \E p \in Procs :
        /\ Returned(p)
        /\ Len(result[p]) = 2
        /\ \E y \in Elems(remaining[p]) :
               /\ RatEqual(StatedMmr(p, result[p][2], BeforeLastPick(p)),
                           StatedMmr(p, y, BeforeLastPick(p)))
               /\ result[p][2].ref < y.ref
        /\ \E z \in Elems(remaining[p]) : base_score(p, z) > base_score(p, result[p][2])

\* the collections that call p has been given
Queried(p) == Elems(collections[p])

\* C13: when the search collaborator raises for a collection of the call,
\* retrieve_documents never reaches the selection and returns nothing, even
\* with candidates of earlier collections at hand, and the error goes through
\* the RAG handler: handle_message ends without response and without a call
\* of the language model
C13_ErrorPropagates ==
    /\ \A p \in Procs :
           /\ pc[p] = "raised" =>
                  selected[p] = <<>> /\ remaining[p] = <<>> /\ result[p] = <<>>
           /\ pc[p] \in {"select", "break", "done"} => Queried(p) \cap failing = {}
    /\ pc[1] = "raised" => hpc \in {"retrieve", "raised"}
    /\ hpc = "raised" => response = <<>> /\ llm_calls = 0
    /\ hpc = "done" => pc[1] = "done"

\* handle_message ended with the error of blogs although repairs had given
\* candidates
C13_Witness ==
    /\ hpc = "raised"
    /\ pc[1] = "raised"
    /\ failing = {"blogs"}
    /\ candidates[1] # <<>>

\* handle_message is done and retrieve_documents had returned the empty list
DoneWithoutDocs == hpc = "done" /\ pc[1] = "done" /\ result[1] = <<>>

\* C14: when retrieve_documents returns the empty list, the response of the
\* RAG handler is the fixed "I couldn't find enough local repair information"
\* reply with the three static links, and the language model is not called
C14_EmptyFallsBack ==
    DoneWithoutDocs =>
        /\ response.reply = RagNoDocsReply
        /\ response.metadata =
               [type |-> "links",
                links |-> <<"Repair Guides", "Instant Repairman", "Find a Technician">>]
        /\ llm_calls = 0

\* a repair question over an index without documents got the fixed reply
C14_Witness ==
    /\ DoneWithoutDocs
    /\ decision.intent = "REPAIR_HELP"
    /\ index = [c \in Collections |-> <<>>]
    /\ response.reply = RagNoDocsReply

\* the phrasings of order 1 that the tests of the router and of the query
\* flow name
OrderPhrasings ==
    {<<"o","r","d","e","r"," ","#","1">>, <<"T","r","a","c","k"," ","o","r","d","e","r"," ","1">>, <<"M","y"," ","o","r","d","e","r"," ","n","u","m","b","e","r"," ","i","s"," ","#","1">>, <<"o","r","d","e","r","i","d"," ","#","1">>}

\* the message was routed, it is one of the phrasings and order 1 exists
OrderNamed == hpc # "idle" /\ message \in OrderPhrasings /\ db = SampleDb

\* C16: for the existing order 1 named in any of the supported phrasings,
\* route_intent yields ORDER_SUPPORT with metadata.order_id = "1", and the
\* metadata of the response has type order_info with order id 1
C16_EveryPhrasing ==
    OrderNamed =>
        /\ decision.intent = "ORDER_SUPPORT"
        /\ decision.metadata.order_id = <<"1">>
        /\ hpc = "done" =>
               /\ "type" \in DOMAIN response.metadata
               /\ response.metadata.type = "order_info"
               /\ response.metadata.order.id = 1

\* "My order number is #1" was answered without the order: no order id was
\* extracted and the response has no metadata
C16_Witness ==
    /\ OrderNamed
    /\ message = <<"M","y"," ","o","r","d","e","r"," ","n","u","m","b","e","r"," ","i","s"," ","#","1">>
    /\ hpc = "done"
    /\ decision.metadata.order_id = NoMatch
    /\ response.metadata = NoMetadata

\* no identifier of a part or of an order was extracted from the message
NoIdentifier ==
    /\ decision.metadata.part_id = NoMatch
    /\ decision.metadata.manufacturer_part_number = NoMatch
    /\ decision.metadata.order_id = NoMatch

\* the routed message describes a draining problem and holds no policy,
\* order or compatibility keyword and no identifier
DrainingOnly ==
    /\ hpc # "idle"
    /\ Contains(Strip(Lower(message)), <<"d","r","a","i","n">>)
    /\ ~AnyIn(policy_keywords \cup order_keywords \cup compat_keywords, Strip(Lower(message)))
    /\ NoIdentifier

\* C17: a message that describes a draining problem, without policy, order
\* or compatibility keyword and without part identifier, is routed to
\* REPAIR_HELP
C17_DrainingIsRepair == DrainingOnly => decision.intent = "REPAIR_HELP"

\* "draining" was answered as out of scope
C17_Witness ==
    /\ DrainingOnly
    /\ message = <<"d","r","a","i","n","i","n","g">>
    /\ decision.intent = "OUT_OF_SCOPE"
    /\ hpc = "done"

\* the routed message holds a compatibility keyword, no policy keyword, no
\* order keyword and no order id
CompatQuestion ==
    /\ hpc # "idle"
    /\ AnyIn(compat_keywords, Strip(Lower(message)))
    /\ ~AnyIn(policy_keywords \cup order_keywords, Strip(Lower(message)))
    /\ decision.metadata.order_id = NoMatch

\* the fields among part_id and model_number that were not extracted
Absent ==
    {f \in {"part_id", "model_number"} : decision.metadata[f] = NoMatch}

\* C18: a message with a compatibility keyword and no policy keyword, order
\* keyword or order id is routed to COMPAT_CHECK exactly when a part id and
\* a model number were both extracted, and to CLARIFICATION otherwise, with
\* missing_fields listing exactly the absent ones, each once
C18_CompatOrClarify ==
    CompatQuestion =>
        /\ decision.intent = "COMPAT_CHECK" <=> Absent = {}
        /\ Absent # {} =>
               /\ decision.intent = "CLARIFICATION"
               /\ Elems(decision.metadata.missing_fields) = Absent
               /\ Len(decision.metadata.missing_fields) = Cardinality(Absent)
        /\ Absent = {} => decision.metadata.missing_fields = <<>>

\* a compatibility question with a part id and no model number was answered
\* by the request for the model number
C18_Witness ==
    /\ CompatQuestion
    /\ hpc = "done"
    /\ decision.intent = "CLARIFICATION"
    /\ decision.metadata.part_id = <<"P","S","1","2","3","4","5","6">>
    /\ decision.metadata.missing_fields = <<"model_number">>
    /\ Len(response.reply) = 2

\* the intents whose handler returns a plain string whatever the message
PlainStringIntents == {"OUT_OF_SCOPE", "CLARIFICATION"}

\* C19: with collaborators that do not raise, handle_message raises for no
\* message and what it returns holds the key reply; a plain string of a
\* handler is returned as {reply, metadata: None}
C19_AlwaysReply ==
    /\ hpc # "raised"
    /\ hpc = "done" =>
           /\ "reply" \in DOMAIN response
           /\ decision.intent \in PlainStringIntents =>
                  /\ DOMAIN response = {"reply", "metadata"}
                  /\ response.metadata = NoMetadata

\* an out-of-scope message was answered by the wrapped string
C19_Witness ==
    /\ hpc = "done"
    /\ decision.intent = "OUT_OF_SCOPE"
    /\ response = [reply |-> handle_out_of_scope(decision, db).payload.str,
                   metadata |-> NoMetadata]

\* the stated mmr_score at which the i-th of the list sel was selected: that
\* against the candidates selected before it
PickScore(p, sel, i) == StatedMmr(p, sel[i], SubSeq(sel, 1, i - 1))

\* C21: the mmr_scores at which the successive candidates are selected, each
\* against the candidates selected before it, never increase
C21_ScoresNonIncreasing ==
    \A p \in Procs :
        \A i \in 1..(Len(selected[p]) - 1) :
            RatGeq(PickScore(p, selected[p], i), PickScore(p, selected[p], i + 1))

\* the second candidate returned was selected at a lower score than the
\* first, and at a lower score than it had before the first was selected
C21_Witness ==
    \E p \in Procs :
        /\ Returned(p)
        /\ Len(result[p]) >= 2
        /\ RatGreater(PickScore(p, result[p], 1), PickScore(p, result[p], 2))
        /\ RatGreater(StatedMmr(p, result[p][2], <<>>), PickScore(p, result[p], 2))

\* the positions of q where a run of letters and digits starts
RunStarts(q) == {i \in 1..Len(q) : IsAlnum(q[i]) /\ (i = 1 \/ ~IsAlnum(q[i - 1]))}

\* the run of letters and digits of q that starts at i, in lower case
RunAt(q, i) ==
    Lower(SubSeq(q, i, (CHOOSE j \in i..Len(q) :
                            /\ \A k \in i..j : IsAlnum(q[k])
                            /\ j = Len(q) \/ ~IsAlnum(q[j + 1]))))

\* the occurrences in q of a token longer than 3 characters, by position
Qualifying(q) == {i \in RunStarts(q) : Len(RunAt(q, i)) > 3}

\* those whose token occurs in the lower-cased text
Matching(q, text) == {i \in Qualifying(q) : Contains(Lower(Chars(text)), RunAt(q, i))}

\* the query of call p has qualifying tokens and x is a candidate of the call
Scored(p, x) == x \in Elems(candidates[p]) /\ Qualifying(query[p]) # {}

\* C22 as stated: the bonus is the number of distinct qualifying tokens of
\* the query that occur in the text, over the number of qualifying tokens
C22_DistinctTokens ==
    \A p \in Procs : \A x \in Elems(candidates[p]) :
        Scored(p, x) =>
            RatEqual(x.keyword_bonus,
                     <<Cardinality({RunAt(query[p], i) : i \in Matching(query[p], TextOf(x))}),
                       Cardinality(Qualifying(query[p]))>>)

\* C22: the bonus is the number of occurrences in the query of a qualifying
\* token that occurs in the text, over the number of occurrences of qualifying
\* tokens: a word repeated in the query is counted at each repeat
C22_TokenOccurrences ==
    \A p \in Procs : \A x \in Elems(candidates[p]) :
        Scored(p, x) =>
            x.keyword_bonus = <<Cardinality(Matching(query[p], TextOf(x))),
                                Cardinality(Qualifying(query[p]))>>

\* a query that holds the same qualifying token twice and a candidate whose
\* text holds the token: the bonus is 2/2
C22_Witness ==
    \E p \in Procs : \E x \in Elems(candidates[p]) :
        /\ Cardinality(Qualifying(query[p])) = 2
        /\ Cardinality(Matching(query[p], TextOf(x))) = 2
        /\ Cardinality({RunAt(query[p], i) : i \in Qualifying(query[p])}) = 1
        /\ x.keyword_bonus = <<2, 2>>

\* no candidate of call p has a distance
AllAbsent(p) == \A x \in Elems(candidates[p]) : DistanceAbsent(x)

\* 0.2 * keyword_bonus + source bias of candidate x of call p, in 1/Unit
BonusAndBias(p, x) ==
    KeywordTerm(x) + (IF FromPreferred(p, x) THEN Unit \div 10 ELSE 0)

\* C23 as stated: when no candidate has a distance, a candidate is never
\* selected while one with a strictly greater 0.2 * keyword_bonus + source
\* bias remains
C23_BonusAndBiasOnly ==
    \A p \in Procs :
        (AllAbsent(p) /\ (InLoop(p) \/ Returned(p))) =>
            \A x \in Elems(selected[p]), y \in Elems(remaining[p]) :
                BonusAndBias(p, y) <= BonusAndBias(p, x)

\* C23: when no candidate has a distance, the base relevance of each is
\* 0.2 * keyword_bonus + source bias - 1.0, the candidate selected first has
\* the greatest such value, and a candidate is selected while one of a
\* strictly greater value remains only if the redundancy of that one, against
\* what was selected before, is strictly greater
C23_BonusBiasAndRedundancy ==
    \A p \in Procs :
        AllAbsent(p) =>
            /\ \A x \in Elems(candidates[p]) : base_score(p, x) = BonusAndBias(p, x) - Unit
            /\ (InLoop(p) \/ Returned(p)) /\ selected[p] # <<>> =>
                   /\ \A y \in Elems(candidates[p]) :
                          BonusAndBias(p, y) <= BonusAndBias(p, selected[p][1])
                   /\ \A y \in Elems(remaining[p]) :
                          BonusAndBias(p, y) > BonusAndBias(p, selected[p][Len(selected[p])]) =>
                              RatGreater(MaxSimilarity(y, BeforeLastPick(p)),
                                         MaxSimilarity(selected[p][Len(selected[p])],
                                                       BeforeLastPick(p)))

\* no candidate has a distance, the whole pool of three was returned, and the
\* second of the list has a smaller 0.2 * keyword_bonus + source bias than
\* the third
C23_Witness ==
    \E p \in Procs :
        /\ Returned(p)
        /\ AllAbsent(p)
        /\ Len(result[p]) = 3
        /\ BonusAndBias(p, result[p][2]) < BonusAndBias(p, result[p][3])

\* min(N, max(top_k, 0)) for the pool of call p
Budget(p) == Min(Len(candidates[p]), IF top_k[p] > 0 THEN top_k[p] ELSE 0)

\* what holds of the loop of call p in every state
LoopCounts(p) ==
    /\ pc[p] # "break"
    /\ pc[p] = "select" =>
           /\ Len(selected[p]) + Len(remaining[p]) = Len(candidates[p])
           /\ Len(selected[p]) <= Budget(p)
    /\ Returned(p) =>
           /\ Len(result[p]) = Budget(p)
           /\ candidates[p] # <<>> =>
                  Len(selected[p]) = top_k[p] \/ remaining[p] = <<>>

\* a step of call p that stays in the loop is one iteration: it moves one
\* candidate from remaining to the end of selected
OneMoved(p) ==
    (pc[p] = "select" /\ pc'[p] = "select") =>
        /\ Len(selected'[p]) = Len(selected[p]) + 1
        /\ Len(remaining'[p]) = Len(remaining[p]) - 1
        /\ SubSeq(selected'[p], 1, Len(selected[p])) = selected[p]
        /\ selected'[p][Len(selected'[p])] \in Elems(remaining[p])

\* C24: the selection loop ends, after min(N, max(top_k, 0)) iterations that
\* each move one candidate from remaining to selected; it stops with
\* len(selected) = top_k or remaining empty, never by the break of
\* `best is None`
C24_LoopTerminates ==
    /\ [](\A p \in Procs : LoopCounts(p))
    /\ [][\A p \in Procs : OneMoved(p)]_vars
    /\ \A p \in Procs : (pc[p] = "select") ~> Returned(p)

\* a call left the loop at top_k = 2 with a candidate still remaining
C24_Witness ==
    \E p \in Procs :
        /\ Returned(p)
        /\ top_k[p] = 2
        /\ Len(candidates[p]) > 2
        /\ Len(result[p]) = 2
        /\ remaining[p] # <<>>

\* the tests of the priority on the routed message, in their order
Matched ==
    LET msg == Strip(Lower(message))
        md == decision.metadata
    IN  <<AnyIn(policy_keywords, msg),
          md.order_id # NoMatch \/ AnyIn(order_keywords, msg),
          AnyIn(compat_keywords, msg),
          md.part_id # NoMatch \/ md.manufacturer_part_number # NoMatch,
          AnyIn(repair_keywords, msg),
          AnyIn(howto_keywords, msg),
          TRUE>>

\* the intents of the tests, in the same order
IntentsOf ==
    <<{"POLICY"}, {"ORDER_SUPPORT"}, {"COMPAT_CHECK", "CLARIFICATION"}, {"PRODUCT_INFO"},
      {"REPAIR_HELP"}, {"BLOG_HOWTO"}, {"OUT_OF_SCOPE"}>>

\* the first test that the routed message passes
FirstMatched == CHOOSE i \in 1..7 : Matched[i] /\ \A j \in 1..(i - 1) : ~Matched[j]

\* C25: route_intent gives every message an intent, that of the first test
\* passed in the order policy keyword, order id or order keyword,
\* compatibility keyword, part id or manufacturer part number, repair
\* keyword, how-to keyword, and OUT_OF_SCOPE when none is
C25_FirstMatchWins ==
    hpc # "idle" => decision.intent \in IntentsOf[FirstMatched]

\* a message with a part id and a repair keyword was answered as
\* PRODUCT_INFO
C25_Witness ==
    /\ hpc = "done"
    /\ message = <<"P","S","1","2","3","4","5","6"," ","l","e","a","k","i","n","g">>
    /\ Matched[4] /\ Matched[5]
    /\ decision.intent = "PRODUCT_INFO"

\* ------------------------------------------------------------------------
\* Properties of llm_answer
\* ------------------------------------------------------------------------

\* the call that gave r raised, or gave no content, or a content without
\* anything but white space
Unusable(r) ==
    \/ r.kind \in {"raises", "none"}
    \/ r.kind = "content" /\ \A k \in 1..Len(r.content) : r.content[k] \in Whitespace

\* the chat-completion calls made so far that were unusable
Failures == {i \in 1..Len(outcomes) : Unusable(outcomes[i])}

\* C26: llm_answer makes at most max_retries chat-completion calls, none
\* after a usable response; it returns the cleaned text of the usable
\* response, and the fixed fallback when all max_retries calls were unusable
C26_RetriesThenFallback ==
    /\ Len(outcomes) <= max_retries
    /\ 1..(Len(outcomes) - 1) \subseteq Failures
    /\ lpc = "done" =>
           IF Len(outcomes) \in Failures \/ outcomes = <<>>
           THEN Len(outcomes) = max_retries /\ answer = LlmFallback
           ELSE answer = clean_llm_response(outcomes[Len(outcomes)].content)
    /\ lpc = "loop" => Failures = 1..Len(outcomes) /\ answer = <<>>

\* with the default max_retries, a call that raised, a content of None and a
\* blank content were followed by the fallback
C26_Witness ==
    /\ lpc = "done"
    /\ max_retries = DefaultRetries
    /\ Len(outcomes) = DefaultRetries
    /\ outcomes[1].kind = "raises"
    /\ outcomes[2].kind = "none"
    /\ outcomes[3].kind = "content"
    /\ answer = LlmFallback

\* C27: the waits are 1, 2, 4, ... seconds, one after each unusable attempt
\* but the last of the max_retries: after k unusable attempts there were
\* min(k, max_retries - 1) waits, the i-th of 2^(i-1) seconds
C27_ExponentialBackoff ==
    /\ slept = [i \in 1..Len(slept) |-> 2 ^ (i - 1)]
    /\ Len(slept) = Min(Cardinality(Failures),
                        IF max_retries > 0 THEN max_retries - 1 ELSE 0)

\* four unusable attempts of four: waits of 1, 2 and 4 seconds and none
\* after the last
C27_Witness ==
    /\ lpc = "done"
    /\ max_retries = 4
    /\ Cardinality(Failures) = 4
    /\ slept = <<1, 2, 4>>
    /\ answer = LlmFallback

\* ------------------------------------------------------------------------
\* Properties of handle_order_support
\* ------------------------------------------------------------------------

\* the message mentions a return or a refund
ReturnAsked == AnyIn({<<"r","e","t","u","r","n">>, <<"r","e","f","u","n","d">>}, Lower(message))

\* the orders and the transactions of the order the message names
NamedOrders == {o \in db.orders : o.order_id = OrderIdOf(decision)}

NamedTransactions == {t \in db.transactions : t.order_id = OrderIdOf(decision)}

\* the message asked about the return of an existing order whose status is
\* returned, and was answered
ReturnedOrderAsked ==
    /\ hpc = "done"
    /\ decision.intent = "ORDER_SUPPORT"
    /\ ReturnAsked
    /\ \E o \in NamedOrders : o.order_status = "returned"

\* C28: a question that mentions a return or a refund and names an existing
\* order with status returned is answered with the statement that the
\* return was accepted and the refund amount when the transaction is
\* refunded, and with 'is being processed' otherwise
C28_ReturnAccepted ==
    ReturnedOrderAsked =>
        IF \E t \in NamedTransactions : t.status = "refunded"
        THEN \E t \in NamedTransactions :
                 response.reply = <<"Yes, your return for order #{order_id} was accepted. Refund: $", t.amount>>
        ELSE response.reply = <<"Return for order #{order_id} is being processed.">>

\* 'Was my return accepted for order #3?' with order 3 returned and
\* refunded: the reply is the text of llm_answer with the order card
C28_Witness ==
    /\ ReturnedOrderAsked
    /\ message = <<"W","a","s"," ","m","y"," ","r","e","t","u","r","n"," ","a","c","c","e","p","t","e","d"," ","f","o","r"," ","o","r","d","e","r"," ","#","3","?">>
    /\ \E t \in NamedTransactions : t.status = "refunded"
    /\ response.reply = <<"{llm_response}">>
    /\ response.metadata.type = "order_info"
    /\ response.metadata.order.transactionStatus = "refunded"
    /\ llm_calls = 1

\* no reply of lines 545-552 is ever given
ReturnRepliesNeverGiven ==
    hpc = "done" =>
        response.reply[1] \notin {"Yes, your return for order #{order_id} was accepted. Refund: $",
                                  "Return for order #{order_id} is being processed.",
                                  "Order #{order_id} is not marked as returned."}

\* ------------------------------------------------------------------------
\* Properties of the compatibility questions
\* ------------------------------------------------------------------------

\* the answer of handle_compat_check on the part whose manufacturer part
\* number holds mpn and the model m
CompatAnswer(mpn, m) ==
    LET parts == {r \in db.parts : ILike(r.manufacturer_part_number, mpn)}
    IN  IF parts = {}
        THEN <<"I couldn't find {identifier} in my catalog.">>
        ELSE IF \E r \in parts : <<r.part_id, m>> \in db.mappings
        THEN <<"Based on my compatibility data, part {identifier} is compatible with model {model_number}.">>
        ELSE <<"I don't see {identifier} listed as compatible with model {model_number}.">>

\* C29: a compatibility question with a manufacturer part number in place
\* of the PartSelect id, and a model number, is routed to
\* handle_compat_check, whose reply says whether the part with that number
\* is compatible with the model
C29_MpnReachesCompatCheck ==
    \A form \in CompatForms, mpn \in MpnsAsked, m \in ModelsAsked :
        (hpc # "idle" /\ message = CompatQuestionOf(form, mpn, m)) =>
            /\ decision.intent = "COMPAT_CHECK"
            /\ hpc = "done" => response.reply = CompatAnswer(mpn, m)

\* 'Does WPW10321304 fit my WDT780SAEM1 model?' on the fixtures: the part
\* number was taken for the model number, the intent is CLARIFICATION and
\* the response asks for the PartSelect id
C29_Witness ==
    /\ message = <<"D","o","e","s"," ","W","P","W","1","0","3","2","1","3","0","4"," ","f","i","t"," ","m","y"," ","W","D","T","7","8","0","S","A","E","M","1"," ","m","o","d","e","l","?">>
    /\ db = SampleDb
    /\ hpc = "done"
    /\ decision.intent = "CLARIFICATION"
    /\ decision.metadata.part_id = NoMatch
    /\ decision.metadata.manufacturer_part_number = <<"W","P","W","1","0","3","2","1","3","0","4">>
    /\ decision.metadata.model_number = <<"W","P","W","1","0","3","2","1","3","0","4">>
    /\ decision.metadata.missing_fields = <<"part_id">>
    /\ response.reply = <<"To help with that, please provide ",
                          "the PartSelect part ID (for example PS11752778)">>

\* with the PartSelect id in place of the manufacturer part number the same
\* questions reach handle_compat_check
PartIdReachesCompatCheck ==
    \A form \in CompatForms, id \in PartIdsAsked, m \in ModelsAsked :
        (hpc = "done" /\ message = CompatQuestionOf(form, id, m)) =>
            /\ decision.intent = "COMPAT_CHECK"
            /\ decision.metadata.model_number = m
            /\ response.reply[1] \in {"I couldn't find {identifier} in my catalog.",
                                      "Based on my compatibility data, part {identifier} is compatible with model {model_number}.",
                                      "I don't see {identifier} listed as compatible with model {model_number}."}

\* ------------------------------------------------------------------------
\* The source bias over a pool of one source
\* ------------------------------------------------------------------------

\* the preferred source of call p is the source of none of its candidates,
\* or of all of them
UniformBias(p) ==
    \/ \A i \in 1..Len(candidates[p]) :
           candidates[p][i].source_collection # preferred_source[p]
    \/ \A i \in 1..Len(candidates[p]) :
           candidates[p][i].source_collection = preferred_source[p]

\* calls p and q have returned, with the same arguments but the preferred
\* source, which q has not
SameButSource(p, q) ==
    /\ pc[p] = "done"
    /\ pc[q] = "done"
    /\ query[p] = query[q]
    /\ top_k[p] = top_k[q]
    /\ collections[p] = collections[q]
    /\ preferred_source[p] # None
    /\ preferred_source[q] = None

\* C30: a call whose preferred source is the source of none or of all of
\* its candidates returns what the same call without preferred source
\* returns
C30_UniformBiasNoChange ==
    \A p \in Procs, q \in Procs :
        (SameButSource(p, q) /\ UniformBias(p)) => result[p] = result[q]

\* both cases with more than one candidate returned: repairs preferred over
\* a pool of repairs, and blogs preferred over the same pool
C30_Witness ==
    /\ SameButSource(1, 2)
    /\ collections[1] = <<"repairs", "repairs">>
    /\ preferred_source[1] \in Collections
    /\ UniformBias(1)
    /\ Len(result[1]) >= 2
    /\ result[1] = result[2]

\* a preferred source that is the source of some candidates only changes
\* what is returned
SomeBiasChanges ==
    /\ SameButSource(1, 2)
    /\ ~UniformBias(1)
    /\ result[1] # result[2]

====
